---- MODULE Spec2Model ----
(***************************************************************************)
(* Model of the routing engine of src/src/App.jsx: opCompare,              *)
(* evalRoutesFor, nodeIdFor / indexFromNodeId / passesRule, replayLevel    *)
(* and the LevelWizard's onAnswer handler.                                 *)
(*                                                                         *)
(* JavaScript strings are sequences of one-character strings, so that      *)
(* String(), Number(), parseInt, split, trim and toLowerCase are computed  *)
(* character by character as the engine computes them.                     *)
(***************************************************************************)
EXTENDS Integers, Sequences, FiniteSets, TLC

VARIABLES
  levelRules,      \* the level graph handed to the engine: [entry_node, nodes, fallback_node]
  levelId,         \* the numeric id of the level
  maxQ,            \* lvl.questions.length
  healthState,     \* the healthState prop / argument
  step,            \* one call of evalRoutesFor: its arguments and its result
  rp,              \* one call of replayLevel: arguments, locals, position
  first,           \* the result of the previous replayLevel call when it had the same arguments
  answers,         \* LevelWizard state: useState({})
  vars,            \* LevelWizard state: useState({})
  path,            \* LevelWizard state: useState([0])
  stop,            \* LevelWizard state: useState(null)
  ended,           \* LevelWizard state: useState(false)
  resultPhrase,    \* LevelWizard state: useState(null)
  guardReasonKey,  \* LevelWizard state: useState(null)
  touched,         \* whether onAnswer has run since the wizard was mounted
  dropped,         \* the indices whose answers the latest onAnswer discarded
  call             \* one call of a pure function: its name, arguments, position and result

allVars == <<levelRules, levelId, maxQ, healthState, step, rp, first, answers, vars,
             path, stop, ended, resultPhrase, guardReasonKey, touched, dropped, call>>

----------------------------------------------------------------------------
(* Bounds of the model.                                                    *)

MaxRoutes == 2
MaxQuestions == 3
MaxRows == 3
MaxLines == 2
MaxChars == 4
MaxAttempts == 2
MaxTicks == 2

----------------------------------------------------------------------------
(* JavaScript values.  Every value is a record of one shape; the tag t is  *)
(* "undefined", "null", "boolean", "number", "nan" (the number NaN) or     *)
(* "string".                                                               *)

Undefined == [t |-> "undefined", b |-> FALSE, n |-> 0, s |-> <<>>]
Null == [t |-> "null", b |-> FALSE, n |-> 0, s |-> <<>>]
NaN == [t |-> "nan", b |-> FALSE, n |-> 0, s |-> <<>>]
Bool(x) == [t |-> "boolean", b |-> x, n |-> 0, s |-> <<>>]
Num(k) == [t |-> "number", b |-> FALSE, n |-> k, s |-> <<>>]
Str(cs) == [t |-> "string", b |-> FALSE, n |-> 0, s |-> cs]

\* JavaScript truthiness (if (x), x || y, x && y).
Truthy(v) ==
  CASE v.t = "boolean" -> v.b
    [] v.t = "number" -> v.n # 0
    [] v.t = "string" -> v.s # <<>>
    [] OTHER -> FALSE

\* a || b
OrElse(a, b) == IF Truthy(a) THEN a ELSE b

\* obj[key] of a plain object: undefined for a key the object does not hold.
Get(obj, key) == IF key \in DOMAIN obj THEN obj[key] ELSE Undefined

\* { ...a, ...b } and Object.assign(a, b): b's entries win.
Assign(a, b) ==
  [k \in (DOMAIN a) \cup (DOMAIN b) |-> IF k \in DOMAIN b THEN b[k] ELSE a[k]]

EmptyObj == [k \in {} |-> Undefined]

----------------------------------------------------------------------------
(* Characters and strings.                                                 *)

DigitChars == <<"0", "1", "2", "3", "4", "5", "6", "7", "8", "9">>
UpperChars == <<"A", "B", "C", "D", "E", "F", "G", "H", "I", "J", "K", "L", "M",
                "N", "O", "P", "Q", "R", "S", "T", "U", "V", "W", "X", "Y", "Z">>
LowerChars == <<"a", "b", "c", "d", "e", "f", "g", "h", "i", "j", "k", "l", "m",
                "n", "o", "p", "q", "r", "s", "t", "u", "v", "w", "x", "y", "z">>
\* The byte-order mark U+FEFF, one character of a text.
cBOM == "BOM"

WhiteChars == {" ", "\t", "\n", "\r", cBOM}

IsDigit(c) == \E d \in 1..10 : DigitChars[d] = c
DigitVal(c) == (CHOOSE d \in 1..10 : DigitChars[d] = c) - 1

LowerChar(c) ==
  IF \E i \in 1..26 : UpperChars[i] = c
  THEN LowerChars[CHOOSE i \in 1..26 : UpperChars[i] = c]
  ELSE c

\* s.toLowerCase()
ToLowerCase(cs) == [i \in 1..Len(cs) |-> LowerChar(cs[i])]

RECURSIVE TrimStart(_)
TrimStart(cs) ==
  IF cs # <<>> /\ Head(cs) \in WhiteChars THEN TrimStart(Tail(cs)) ELSE cs

RECURSIVE TrimEnd(_)
TrimEnd(cs) ==
  IF cs # <<>> /\ cs[Len(cs)] \in WhiteChars
  THEN TrimEnd(SubSeq(cs, 1, Len(cs) - 1))
  ELSE cs

\* s.trim()
Trim(cs) == TrimEnd(TrimStart(cs))

RECURSIVE NatToStr(_)
NatToStr(k) ==
  IF k < 10 THEN <<DigitChars[k + 1]>>
  ELSE NatToStr(k \div 10) \o <<DigitChars[(k % 10) + 1]>>

IntToStr(k) == IF k < 0 THEN <<"-">> \o NatToStr(0 - k) ELSE NatToStr(k)

\* String(v)
ToStringJS(v) ==
  CASE v.t = "string" -> v.s
    [] v.t = "boolean" -> IF v.b THEN <<"t", "r", "u", "e">> ELSE <<"f", "a", "l", "s", "e">>
    [] v.t = "number" -> IntToStr(v.n)
    [] v.t = "nan" -> <<"N", "a", "N">>
    [] v.t = "null" -> <<"n", "u", "l", "l">>
    [] OTHER -> <<"u", "n", "d", "e", "f", "i", "n", "e", "d">>

\* The number of leading decimal digits of cs.
RECURSIVE DigitPrefixLen(_)
DigitPrefixLen(cs) ==
  IF cs # <<>> /\ IsDigit(Head(cs)) THEN 1 + DigitPrefixLen(Tail(cs)) ELSE 0

\* The value of a non-empty sequence of decimal digits.
RECURSIVE DigitsVal(_)
DigitsVal(cs) ==
  IF Len(cs) = 1 THEN DigitVal(cs[1])
  ELSE 10 * DigitsVal(SubSeq(cs, 1, Len(cs) - 1)) + DigitVal(cs[Len(cs)])

\* Number(v), for the integer literals the sheets hold: a decimal point, an
\* exponent, a radix prefix or "Infinity" is not a character sequence of this
\* model's inputs.
ToNumberJS(v) ==
  CASE v.t = "number" -> v
    [] v.t = "nan" -> NaN
    [] v.t = "boolean" -> IF v.b THEN Num(1) ELSE Num(0)
    [] v.t = "null" -> Num(0)
    [] v.t = "undefined" -> NaN
    [] OTHER ->
       LET tr == Trim(v.s)
           signed == tr # <<>> /\ Head(tr) \in {"+", "-"}
           body == IF signed THEN Tail(tr) ELSE tr
       IN IF tr = <<>> THEN Num(0)
          ELSE IF body # <<>> /\ DigitPrefixLen(body) = Len(body)
          THEN IF signed /\ Head(tr) = "-" THEN Num(0 - DigitsVal(body))
               ELSE Num(DigitsVal(body))
          ELSE NaN

\* parseInt(v, 10): leading white space, an optional sign, then the longest
\* run of digits; NaN when there is none.
ParseInt10(v) ==
  LET tr == TrimStart(ToStringJS(v))
      signed == tr # <<>> /\ Head(tr) \in {"+", "-"}
      body == IF signed THEN Tail(tr) ELSE tr
      k == DigitPrefixLen(body)
  IN IF k = 0 THEN NaN
     ELSE IF signed /\ Head(tr) = "-" THEN Num(0 - DigitsVal(SubSeq(body, 1, k)))
     ELSE Num(DigitsVal(SubSeq(body, 1, k)))

\* The position of the first occurrence of character c in cs, or 0.
RECURSIVE IndexOfChar(_, _)
IndexOfChar(cs, c) ==
  IF cs = <<>> THEN 0
  ELSE IF Head(cs) = c THEN 1
  ELSE LET k == IndexOfChar(Tail(cs), c) IN IF k = 0 THEN 0 ELSE k + 1

\* s.split(c)[1]: the text between the first and the second c; undefined when
\* s holds no c.
SplitSecond(cs, c) ==
  LET p == IndexOfChar(cs, c) IN
  IF p = 0 THEN Undefined
  ELSE LET rest == SubSeq(cs, p + 1, Len(cs))
           q == IndexOfChar(rest, c)
       IN Str(IF q = 0 THEN rest ELSE SubSeq(rest, 1, q - 1))

----------------------------------------------------------------------------
(* String constants of the engine and of the rule sheets of the model.     *)

sEq == <<"=", "=">>
sNe == <<"!", "=">>
sLt == <<"<">>
sLe == <<"<", "=">>
sGt == <<">">>
sGe == <<">", "=">>
sFAIL == <<"F", "A", "I", "L">>
sEND == <<"E", "N", "D">>
sL == <<"L">>
sBool == <<"b", "o", "o", "l">>
sOptions3 == <<"o", "p", "t", "i", "o", "n", "s", "3">>
sYesLC == <<"y", "e", "s">>
sNoLC == <<"n", "o">>
sTrueLC == <<"t", "r", "u", "e">>
sFalseLC == <<"f", "a", "l", "s", "e">>
sResetTo == <<"r", "e", "s", "e", "t", "T", "o">>
sNotEligibleContinue == <<"N", "O", "T", "_", "E", "L", "I", "G", "I", "B", "L", "E", "_",
                          "C", "O", "N", "T", "I", "N", "U", "E">>
sNIYABAT == <<"N", "I", "Y", "A", "B", "A", "T">>
sGIFT == <<"G", "I", "F", "T">>
sHEALTH_STATE == <<"H", "E", "A", "L", "T", "H", "_", "S", "T", "A", "T", "E">>
sEND_PHRASE == <<"E", "N", "D", "_", "P", "H", "R", "A", "S", "E">>
sGREEN == <<"G", "R", "E", "E", "N">>
sRED == <<"R", "E", "D">>

----------------------------------------------------------------------------
(* opCompare                                                               *)

opCompare_StrictEquality(op, a, b) ==
  LET na == ToNumberJS(a)
      nb == ToNumberJS(b)
      bothNum == na.t = "number" /\ nb.t = "number"
  IN CASE op = Str(sEq) -> a = b
       [] op = Str(sNe) -> a # b
       [] op = Str(sLt) -> bothNum /\ na.n < nb.n
       [] op = Str(sLe) -> bothNum /\ na.n <= nb.n
       [] op = Str(sGt) -> bothNum /\ na.n > nb.n
       [] op = Str(sGe) -> bothNum /\ na.n >= nb.n
       [] OTHER -> FALSE

opCompare(op, a, b) ==
  LET na == ToNumberJS(a)
      nb == ToNumberJS(b)
      bothNum == na.t = "number" /\ nb.t = "number"
  IN CASE op = Str(sEq) -> ToStringJS(a) = ToStringJS(b)
       [] op = Str(sNe) -> ToStringJS(a) # ToStringJS(b)
       [] op = Str(sLt) -> bothNum /\ na.n < nb.n
       [] op = Str(sLe) -> bothNum /\ na.n <= nb.n
       [] op = Str(sGt) -> bothNum /\ na.n > nb.n
       [] op = Str(sGe) -> bothNum /\ na.n >= nb.n
       [] OTHER -> FALSE

----------------------------------------------------------------------------
(* evalRoutesFor                                                           *)
(*                                                                         *)
(* A route is [when |-> [op, field, value], goto_node, reset_to, reason,   *)
(* print, set, guard |-> [present, field, op, value, next, reason]]; an    *)
(* absent property is Undefined, an absent set is the empty object and an  *)
(* absent guard has present = FALSE.  A node is [id, field, input_type,    *)
(* routes, fallback_node].                                                 *)
(* An outcome is [ok, hasVars, vars, complete, nextNode, action, reason,   *)
(* print, guardReason]; a property the returned object does not carry is   *)
(* Undefined (complete: FALSE, hasVars: FALSE).                            *)

NoGuard == [present |-> FALSE, field |-> Undefined, op |-> Undefined,
            value |-> Undefined, next |-> Undefined, reason |-> Undefined]

Outcome(ok, vs, complete, nextNode, action, reason, print, guardReason) ==
  [ok |-> ok, hasVars |-> TRUE, vars |-> vs, complete |-> complete,
   nextNode |-> nextNode, action |-> action, reason |-> reason,
   print |-> print, guardReason |-> guardReason]

\* { ok: true }
OkOnly ==
  [ok |-> TRUE, hasVars |-> FALSE, vars |-> EmptyObj, complete |-> FALSE,
   nextNode |-> Undefined, action |-> Undefined, reason |-> Undefined,
   print |-> Undefined, guardReason |-> Undefined]

\* list.find((n) => n.id === nodeId): the position of the first such node, or 0.
FindNode(list, nodeId) ==
  IF \E i \in 1..Len(list) : list[i].id = nodeId
  THEN CHOOSE i \in 1..Len(list) :
         list[i].id = nodeId /\ \A j \in 1..(i - 1) : list[j].id # nodeId
  ELSE 0

\* The answer as recorded: yes/no/true/false texts of a bool node become booleans.
NormalizeAnswer_CaseSensitive(node, uiAnswer) ==
  IF node.input_type = Str(sBool)
  THEN LET s == Trim(ToStringJS(uiAnswer)) IN
       CASE s = sYesLC -> Bool(TRUE)
         [] s = sNoLC -> Bool(FALSE)
         [] s = sTrueLC -> Bool(TRUE)
         [] s = sFalseLC -> Bool(FALSE)
         [] OTHER -> uiAnswer
  ELSE uiAnswer

NormalizeAnswer(node, uiAnswer) ==
  IF node.input_type = Str(sBool)
  THEN LET s == ToLowerCase(Trim(ToStringJS(uiAnswer))) IN
       CASE s = sYesLC -> Bool(TRUE)
         [] s = sNoLC -> Bool(FALSE)
         [] s = sTrueLC -> Bool(TRUE)
         [] s = sFalseLC -> Bool(FALSE)
         [] OTHER -> uiAnswer
  ELSE uiAnswer

\* The copy of vars with the answer recorded under the node's field.
RecordAnswer_FieldOnly(node, answer, vs) ==
  IF Truthy(node.field)
  THEN [k \in {ToStringJS(node.field)} |-> answer]
  ELSE EmptyObj

RecordAnswer(node, answer, vs) ==
  IF Truthy(node.field)
  THEN Assign(vs, [k \in {ToStringJS(node.field)} |-> answer])
  ELSE vs

WhenMatches(r, outVars) ==
  opCompare(r.when.op, Get(outVars, ToStringJS(r.when.field)), r.when.value)

GuardMatches(r, outVars) ==
  opCompare(r.guard.op, Get(outVars, ToStringJS(r.guard.field)), r.guard.value)

\* The for loop over node.routes from position i on: the position of the
\* route that returns (0 when the loop runs off the end), whether it returns
\* through its guard, and the position of the last route whose when-condition
\* the loop evaluated.
RECURSIVE ScanRoutes_GuardFallsThrough(_, _, _)
ScanRoutes_GuardFallsThrough(routes, outVars, i) ==
  IF i > Len(routes) THEN [taken |-> 0, viaGuard |-> FALSE, last |-> Len(routes)]
  ELSE LET r == routes[i] IN
       IF ~WhenMatches(r, outVars)
       THEN ScanRoutes_GuardFallsThrough(routes, outVars, i + 1)
       ELSE [taken |-> i, viaGuard |-> r.guard.present /\ GuardMatches(r, outVars),
             last |-> i]

RECURSIVE ScanRoutes_LastMatch(_, _, _)
ScanRoutes_LastMatch(routes, outVars, i) ==
  IF i > Len(routes) THEN [taken |-> 0, viaGuard |-> FALSE, last |-> Len(routes)]
  ELSE LET r == routes[i]
           later == ScanRoutes_LastMatch(routes, outVars, i + 1)
       IN IF later.taken # 0 THEN later
          ELSE IF WhenMatches(r, outVars)
                  /\ (r.guard.present => GuardMatches(r, outVars))
          THEN [taken |-> i, viaGuard |-> r.guard.present, last |-> Len(routes)]
          ELSE later

RECURSIVE ScanRoutes_NoEarlyExit(_, _, _)
ScanRoutes_NoEarlyExit(routes, outVars, i) ==
  IF i > Len(routes) THEN [taken |-> 0, viaGuard |-> FALSE, last |-> Len(routes)]
  ELSE LET r == routes[i]
           later == ScanRoutes_NoEarlyExit(routes, outVars, i + 1)
       IN IF WhenMatches(r, outVars) /\ (r.guard.present => GuardMatches(r, outVars))
          THEN [taken |-> i, viaGuard |-> r.guard.present, last |-> Len(routes)]
          ELSE later

RECURSIVE ScanRoutes(_, _, _)
ScanRoutes(routes, outVars, i) ==
  IF i > Len(routes) THEN [taken |-> 0, viaGuard |-> FALSE, last |-> Len(routes)]
  ELSE LET r == routes[i] IN
       IF ~WhenMatches(r, outVars) THEN ScanRoutes(routes, outVars, i + 1)
       ELSE IF r.guard.present
       THEN IF GuardMatches(r, outVars)
            THEN [taken |-> i, viaGuard |-> TRUE, last |-> i]
            ELSE ScanRoutes(routes, outVars, i + 1)
       ELSE [taken |-> i, viaGuard |-> FALSE, last |-> i]

\* The returns of a route whose guard matched.
GuardOutcome_EmptyNextHalts(r, outVars) ==
  LET g == r.guard IN
  IF g.next = Str(sFAIL)
  THEN Outcome(FALSE, outVars, FALSE, Undefined, Undefined,
               OrElse(g.reason, Str(sL)), r.print, Undefined)
  ELSE IF g.next = Str(sEND)
  THEN Outcome(TRUE, outVars, TRUE, Undefined, Undefined, Undefined, r.print, g.reason)
  ELSE IF Truthy(g.next)
  THEN Outcome(TRUE, outVars, FALSE, g.next, Undefined, Undefined, r.print, g.reason)
  ELSE Outcome(TRUE, outVars, FALSE, Undefined, Undefined, Undefined, r.print, g.reason)

GuardOutcome_AppliesSet(r, outVars) ==
  LET g == r.guard
      withSet == Assign(outVars, r.set)
  IN
  IF g.next = Str(sFAIL)
  THEN Outcome(FALSE, withSet, FALSE, Undefined, Undefined,
               OrElse(g.reason, Str(sL)), r.print, Undefined)
  ELSE IF g.next = Str(sEND)
  THEN Outcome(TRUE, withSet, TRUE, Undefined, Undefined, Undefined, r.print, g.reason)
  ELSE IF Truthy(g.next)
  THEN Outcome(TRUE, withSet, FALSE, g.next, Undefined, Undefined, r.print, g.reason)
  ELSE Outcome(FALSE, withSet, FALSE, Undefined, Undefined,
               OrElse(g.reason, Str(sL)), r.print, Undefined)

GuardOutcome(r, outVars) ==
  LET g == r.guard IN
  IF g.next = Str(sFAIL)
  THEN Outcome(FALSE, outVars, FALSE, Undefined, Undefined,
               OrElse(g.reason, Str(sL)), r.print, Undefined)
  ELSE IF g.next = Str(sEND)
  THEN Outcome(TRUE, outVars, TRUE, Undefined, Undefined, Undefined, r.print, g.reason)
  ELSE IF Truthy(g.next)
  THEN Outcome(TRUE, outVars, FALSE, g.next, Undefined, Undefined, r.print, g.reason)
  ELSE Outcome(FALSE, outVars, FALSE, Undefined, Undefined,
               OrElse(g.reason, Str(sL)), r.print, Undefined)

\* The returns of a matched route without a guard: set effects, then the destination.
RouteOutcome_SetDropped(r, outVars) ==
  IF r.goto_node = Str(sEND)
  THEN Outcome(TRUE, outVars, TRUE, Undefined, Undefined, Undefined, r.print, Undefined)
  ELSE IF Truthy(r.reset_to)
  THEN Outcome(TRUE, outVars, FALSE, r.reset_to, Str(sResetTo), Undefined, r.print, Undefined)
  ELSE IF r.goto_node = Str(sFAIL)
  THEN Outcome(FALSE, outVars, FALSE, Undefined, Undefined,
               OrElse(r.reason, Str(sL)), r.print, Undefined)
  ELSE IF Truthy(r.goto_node)
  THEN Outcome(TRUE, outVars, FALSE, r.goto_node, Undefined, Undefined, r.print, Undefined)
  ELSE Outcome(TRUE, outVars, FALSE, Undefined, Undefined, Undefined, r.print, Undefined)

RouteOutcome(r, outVars) ==
  LET withSet == Assign(outVars, r.set) IN
  IF r.goto_node = Str(sEND)
  THEN Outcome(TRUE, withSet, TRUE, Undefined, Undefined, Undefined, r.print, Undefined)
  ELSE IF Truthy(r.reset_to)
  THEN Outcome(TRUE, withSet, FALSE, r.reset_to, Str(sResetTo), Undefined, r.print, Undefined)
  ELSE IF r.goto_node = Str(sFAIL)
  THEN Outcome(FALSE, withSet, FALSE, Undefined, Undefined,
               OrElse(r.reason, Str(sL)), r.print, Undefined)
  ELSE IF Truthy(r.goto_node)
  THEN Outcome(TRUE, withSet, FALSE, r.goto_node, Undefined, Undefined, r.print, Undefined)
  ELSE Outcome(TRUE, withSet, FALSE, Undefined, Undefined, Undefined, r.print, Undefined)

\* The returns after the loop: the node's fallback.
FallbackOutcome_FailAdvances(node, outVars) ==
  IF node.fallback_node = Str(sEND)
  THEN Outcome(TRUE, outVars, TRUE, Undefined, Undefined, Undefined, Undefined, Undefined)
  ELSE IF Truthy(node.fallback_node)
  THEN Outcome(TRUE, outVars, FALSE, node.fallback_node, Undefined, Undefined,
               Undefined, Undefined)
  ELSE Outcome(TRUE, outVars, FALSE, Undefined, Undefined, Undefined, Undefined, Undefined)

FallbackOutcome_EndAsNodeId(node, outVars) ==
  IF node.fallback_node = Str(sFAIL)
  THEN Outcome(FALSE, outVars, FALSE, Undefined, Undefined, Str(sL), Undefined, Undefined)
  ELSE IF Truthy(node.fallback_node)
  THEN Outcome(TRUE, outVars, FALSE, node.fallback_node, Undefined, Undefined,
               Undefined, Undefined)
  ELSE Outcome(TRUE, outVars, FALSE, Undefined, Undefined, Undefined, Undefined, Undefined)

FallbackOutcome(node, outVars) ==
  IF node.fallback_node = Str(sFAIL)
  THEN Outcome(FALSE, outVars, FALSE, Undefined, Undefined, Str(sL), Undefined, Undefined)
  ELSE IF node.fallback_node = Str(sEND)
  THEN Outcome(TRUE, outVars, TRUE, Undefined, Undefined, Undefined, Undefined, Undefined)
  ELSE IF Truthy(node.fallback_node)
  THEN Outcome(TRUE, outVars, FALSE, node.fallback_node, Undefined, Undefined,
               Undefined, Undefined)
  ELSE Outcome(TRUE, outVars, FALSE, Undefined, Undefined, Undefined, Undefined, Undefined)

\* What the loop of one call of evalRoutesFor did: the route that returned,
\* whether through its guard, and the last route it examined (all 0 / FALSE
\* when the node is missing).
routesExamined(rules, nodeId, uiAnswer, vs) ==
  LET k == FindNode(rules.nodes, nodeId) IN
  IF k = 0 THEN [taken |-> 0, viaGuard |-> FALSE, last |-> 0]
  ELSE LET node == rules.nodes[k]
           outVars == RecordAnswer(node, NormalizeAnswer(node, uiAnswer), vs)
       IN ScanRoutes(node.routes, outVars, 1)

evalRoutesFor_MissingNodeFails(rules, nodeId, uiAnswer, vs) ==
  LET k == FindNode(rules.nodes, nodeId) IN
  IF k = 0
  THEN Outcome(FALSE, vs, FALSE, Undefined, Undefined, Str(sL), Undefined, Undefined)
  ELSE LET node == rules.nodes[k]
           outVars == RecordAnswer(node, NormalizeAnswer(node, uiAnswer), vs)
           scan == ScanRoutes(node.routes, outVars, 1)
       IN IF scan.taken = 0 THEN FallbackOutcome(node, outVars)
          ELSE IF scan.viaGuard
          THEN GuardOutcome(node.routes[scan.taken], outVars)
          ELSE RouteOutcome(node.routes[scan.taken], outVars)

evalRoutesFor(rules, nodeId, uiAnswer, vs) ==
  LET k == FindNode(rules.nodes, nodeId) IN
  IF k = 0 THEN OkOnly
  ELSE LET node == rules.nodes[k]
           outVars == RecordAnswer(node, NormalizeAnswer(node, uiAnswer), vs)
           scan == ScanRoutes(node.routes, outVars, 1)
       IN IF scan.taken = 0 THEN FallbackOutcome(node, outVars)
          ELSE IF scan.viaGuard
          THEN GuardOutcome(node.routes[scan.taken], outVars)
          ELSE RouteOutcome(node.routes[scan.taken], outVars)

----------------------------------------------------------------------------
(* The objects one call of evalRoutesFor can reach: the caller's vars      *)
(* object, the set object of each route of the node, and the object the    *)
(* call creates for outVars.  mem is [vars, out, sets]; the call writes    *)
(* through the reference outVars only.                                     *)

NoMem == [vars |-> EmptyObj, out |-> EmptyObj, sets |-> <<>>]

MemAtCall(rules, nodeId, vs) ==
  LET k == FindNode(rules.nodes, nodeId) IN
  [vars |-> vs, out |-> EmptyObj,
   sets |-> IF k = 0 THEN <<>>
            ELSE [i \in 1..Len(rules.nodes[k].routes) |-> rules.nodes[k].routes[i].set]]

\* const outVars = { ...(vars || {}) }: outVars refers to a new object.
OutVarsRef_Alias == "vars"

OutVarsRef == "out"

ReadRef(mem, ref) == IF ref = "out" THEN mem.out ELSE mem.vars
WriteRef(mem, ref, obj) ==
  IF ref = "out" THEN [mem EXCEPT !.out = obj] ELSE [mem EXCEPT !.vars = obj]

\* The writes of the call after the answer is normalised: the copy, the
\* node's field, and the set effects of a route taken without a guard.
WritesAfter(m0, node, answer) ==
  LET m1 == WriteRef(m0, OutVarsRef, m0.vars)
      m2 == WriteRef(m1, OutVarsRef, RecordAnswer(node, answer, ReadRef(m1, OutVarsRef)))
      scan == ScanRoutes(node.routes, ReadRef(m2, OutVarsRef), 1)
  IN IF scan.taken # 0 /\ ~scan.viaGuard
     THEN WriteRef(m2, OutVarsRef, Assign(ReadRef(m2, OutVarsRef), m2.sets[scan.taken]))
     ELSE m2

MemAfterCall(rules, nodeId, uiAnswer, vs) ==
  LET k == FindNode(rules.nodes, nodeId) IN
  IF k = 0 THEN MemAtCall(rules, nodeId, vs)
  ELSE WritesAfter(MemAtCall(rules, nodeId, vs), rules.nodes[k],
                   NormalizeAnswer(rules.nodes[k], uiAnswer))

----------------------------------------------------------------------------
(* defaultVars                                                             *)

defaultVars(hs) ==
  (sNIYABAT :> Bool(FALSE)) @@ (sGIFT :> Bool(FALSE))
    @@ (sHEALTH_STATE :> OrElse(hs, Str(sGREEN))) @@ (sEND_PHRASE :> Null)

----------------------------------------------------------------------------
(* nodeIdFor, indexFromNodeId, passesRule                                  *)

\* "L" + levelId + "Q" + (qIndex + 1)
nodeIdFor(lid, qIndex) ==
  Str(<<"L">> \o ToStringJS(Num(lid)) \o <<"Q">> \o ToStringJS(Num(qIndex + 1)))

\* The index a node id names: Num(n - 1) for the integer n that follows the
\* first "Q", Null when there is none.
indexFromNodeId(nodeId) ==
  LET n == ParseInt10(SplitSecond(ToStringJS(nodeId), "Q")) IN
  IF n.t = "number" THEN Num(n.n - 1) ELSE Null

passesRule(lid, qIndex, answer, rules, vs) ==
  evalRoutesFor(rules, nodeIdFor(lid, qIndex), answer, vs)

----------------------------------------------------------------------------
(* replayLevel                                                             *)
(*                                                                         *)
(* The locals of one call are a record [qIdx, seen, path, vars, stop,      *)
(* ended, print, guardReason, running]; running is FALSE once the while    *)
(* loop is left.  stop is NoStop (null) or [isNull |-> FALSE, qIndex,      *)
(* reason].  An answers map is a function from question indices to values. *)

NoStop == [isNull |-> TRUE, qIndex |-> 0, reason |-> Undefined]
StopAt(q, reason) == [isNull |-> FALSE, qIndex |-> q, reason |-> reason]

\* The locals at the first evaluation of the while condition.
ReplayLocals_StaleVars(hs) ==
  [qIdx |-> Num(0), seen |-> {}, path |-> <<>>,
   vars |-> IF rp.pc = "done" THEN rp.result.vars ELSE defaultVars(hs),
   stop |-> NoStop, ended |-> FALSE, print |-> Null, guardReason |-> Null,
   running |-> TRUE]

ReplayLocals(hs) ==
  [qIdx |-> Num(0), seen |-> {}, path |-> <<>>, vars |-> defaultVars(hs),
   stop |-> NoStop, ended |-> FALSE, print |-> Null, guardReason |-> Null,
   running |-> TRUE]

\* The loop body after passesRule has returned res for question q: vars,
\* print and guardReason are taken over, then the call ends, stops, jumps or
\* stays.  explicitBreak tells the module-level function, whose body ends
\* with a break, from the one nested in LevelWizard, whose body falls through
\* to the next evaluation of the while condition.
AfterRule_DefaultReason(l1, q, res, explicitBreak) ==
  LET l2 == [l1 EXCEPT
               !.vars = IF res.hasVars THEN res.vars ELSE @,
               !.print = IF Truthy(res.print) THEN res.print ELSE @,
               !.guardReason = IF Truthy(res.guardReason) THEN res.guardReason ELSE @]
  IN IF res.complete THEN [l2 EXCEPT !.ended = TRUE, !.running = FALSE]
     ELSE IF ~res.ok
     THEN [l2 EXCEPT !.stop = StopAt(q, Str(sNotEligibleContinue)), !.running = FALSE]
     ELSE IF res.action = Str(sResetTo) /\ Truthy(res.nextNode)
     THEN [l2 EXCEPT !.qIdx = indexFromNodeId(res.nextNode)]
     ELSE IF Truthy(res.nextNode)
     THEN [l2 EXCEPT !.qIdx = indexFromNodeId(res.nextNode)]
     ELSE IF explicitBreak THEN [l2 EXCEPT !.running = FALSE]
     ELSE l2

AfterRule_LinearAdvance(l1, q, res, explicitBreak) ==
  LET l2 == [l1 EXCEPT
               !.vars = IF res.hasVars THEN res.vars ELSE @,
               !.print = IF Truthy(res.print) THEN res.print ELSE @,
               !.guardReason = IF Truthy(res.guardReason) THEN res.guardReason ELSE @]
  IN IF res.complete THEN [l2 EXCEPT !.ended = TRUE, !.running = FALSE]
     ELSE IF ~res.ok
     THEN [l2 EXCEPT
             !.stop = StopAt(q, OrElse(res.reason, Str(sNotEligibleContinue))),
             !.running = FALSE]
     ELSE IF Truthy(res.nextNode) THEN [l2 EXCEPT !.qIdx = Num(q + 1)]
     ELSE IF explicitBreak THEN [l2 EXCEPT !.running = FALSE]
     ELSE l2

AfterRule_EndKeepsWalking(l1, q, res, explicitBreak) ==
  LET l2 == [l1 EXCEPT
               !.vars = IF res.hasVars THEN res.vars ELSE @,
               !.print = IF Truthy(res.print) THEN res.print ELSE @,
               !.guardReason = IF Truthy(res.guardReason) THEN res.guardReason ELSE @]
  IN IF res.complete THEN [l2 EXCEPT !.ended = TRUE, !.qIdx = Num(q + 1)]
     ELSE IF ~res.ok
     THEN [l2 EXCEPT
             !.stop = StopAt(q, OrElse(res.reason, Str(sNotEligibleContinue))),
             !.running = FALSE]
     ELSE IF res.action = Str(sResetTo) /\ Truthy(res.nextNode)
     THEN [l2 EXCEPT !.qIdx = indexFromNodeId(res.nextNode)]
     ELSE IF Truthy(res.nextNode)
     THEN [l2 EXCEPT !.qIdx = indexFromNodeId(res.nextNode)]
     ELSE IF explicitBreak THEN [l2 EXCEPT !.running = FALSE]
     ELSE l2

AfterRule_FallThroughAdvances(l1, q, res, explicitBreak) ==
  LET l2 == [l1 EXCEPT
               !.vars = IF res.hasVars THEN res.vars ELSE @,
               !.print = IF Truthy(res.print) THEN res.print ELSE @,
               !.guardReason = IF Truthy(res.guardReason) THEN res.guardReason ELSE @]
  IN IF res.complete THEN [l2 EXCEPT !.ended = TRUE, !.running = FALSE]
     ELSE IF ~res.ok
     THEN [l2 EXCEPT
             !.stop = StopAt(q, OrElse(res.reason, Str(sNotEligibleContinue))),
             !.running = FALSE]
     ELSE IF res.action = Str(sResetTo) /\ Truthy(res.nextNode)
     THEN [l2 EXCEPT !.qIdx = indexFromNodeId(res.nextNode)]
     ELSE IF Truthy(res.nextNode)
     THEN [l2 EXCEPT !.qIdx = indexFromNodeId(res.nextNode)]
     ELSE IF explicitBreak THEN [l2 EXCEPT !.running = FALSE]
     ELSE [l2 EXCEPT !.qIdx = Num(q + 1)]

AfterRule(l1, q, res, explicitBreak) ==
  LET l2 == [l1 EXCEPT
               !.vars = IF res.hasVars THEN res.vars ELSE @,
               !.print = IF Truthy(res.print) THEN res.print ELSE @,
               !.guardReason = IF Truthy(res.guardReason) THEN res.guardReason ELSE @]
  IN IF res.complete THEN [l2 EXCEPT !.ended = TRUE, !.running = FALSE]
     ELSE IF ~res.ok
     THEN [l2 EXCEPT
             !.stop = StopAt(q, OrElse(res.reason, Str(sNotEligibleContinue))),
             !.running = FALSE]
     ELSE IF res.action = Str(sResetTo) /\ Truthy(res.nextNode)
     THEN [l2 EXCEPT !.qIdx = indexFromNodeId(res.nextNode)]
     ELSE IF Truthy(res.nextNode)
     THEN [l2 EXCEPT !.qIdx = indexFromNodeId(res.nextNode)]
     ELSE IF explicitBreak THEN [l2 EXCEPT !.running = FALSE]
     ELSE l2

\* The loop body from seen.add(qIdx) on: the question is put on the path and,
\* when it has an answer, the answer is passed to passesRule.
VisitQuestion_NoWait(loc, lid, rules, answersMap, explicitBreak) ==
  LET q == loc.qIdx.n
      l1 == [loc EXCEPT !.seen = @ \cup {q}, !.path = Append(@, q)]
  IN AfterRule(l1, q, passesRule(lid, q, Get(answersMap, q), rules, loc.vars),
               explicitBreak)

VisitQuestion(loc, lid, rules, answersMap, explicitBreak) ==
  LET q == loc.qIdx.n
      l1 == [loc EXCEPT !.seen = @ \cup {q}, !.path = Append(@, q)]
  IN IF Get(answersMap, q) = Undefined THEN [l1 EXCEPT !.running = FALSE]
     ELSE AfterRule(l1, q, passesRule(lid, q, Get(answersMap, q), rules, loc.vars),
                    explicitBreak)

\* One evaluation of the while condition and, when it holds, one pass through
\* the loop body.
ReplayIteration_NoSeenCheck(loc, lid, mq, rules, answersMap, explicitBreak) ==
  IF ~(loc.qIdx # Null /\ loc.qIdx.n < mq) THEN [loc EXCEPT !.running = FALSE]
  ELSE VisitQuestion(loc, lid, rules, answersMap, explicitBreak)

ReplayIteration(loc, lid, mq, rules, answersMap, explicitBreak) ==
  IF ~(loc.qIdx # Null /\ loc.qIdx.n < mq) THEN [loc EXCEPT !.running = FALSE]
  ELSE IF loc.qIdx.n \in loc.seen THEN [loc EXCEPT !.running = FALSE]
  ELSE VisitQuestion(loc, lid, rules, answersMap, explicitBreak)

\* for (const i of path) if (answersMap[i] !== undefined) prunedAnswers[i] = answersMap[i]
RECURSIVE PruneAnswers_ByPosition(_, _)
PruneAnswers_ByPosition(p, answersMap) ==
  IF p = <<>> THEN EmptyObj
  ELSE LET i == Len(p) - 1
           before == PruneAnswers_ByPosition(SubSeq(p, 1, Len(p) - 1), answersMap)
       IN IF Get(answersMap, i) # Undefined
          THEN Assign(before, [k \in {i} |-> answersMap[i]])
          ELSE before

PruneAnswers_BelowLast(p, answersMap) ==
  IF p = <<>> THEN EmptyObj
  ELSE [i \in {k \in DOMAIN answersMap : k < p[Len(p)]} |-> answersMap[i]]

RECURSIVE PruneAnswers(_, _)
PruneAnswers(p, answersMap) ==
  IF p = <<>> THEN EmptyObj
  ELSE LET i == p[Len(p)]
           before == PruneAnswers(SubSeq(p, 1, Len(p) - 1), answersMap)
       IN IF Get(answersMap, i) # Undefined
          THEN Assign(before, [k \in {i} |-> answersMap[i]])
          ELSE before

\* The object replayLevel returns, from the locals after the loop.
ReplayResult(loc, answersMap) ==
  [path |-> loc.path, vars |-> loc.vars, stop |-> loc.stop, ended |-> loc.ended,
   answers |-> PruneAnswers(loc.path, answersMap), print |-> loc.print,
   guardReason |-> loc.guardReason]

\* The while loop run to its end from locals loc.
RECURSIVE ReplayLoop(_, _, _, _, _, _)
ReplayLoop(loc, lid, mq, rules, answersMap, explicitBreak) ==
  IF ~loc.running THEN loc
  ELSE ReplayLoop(ReplayIteration(loc, lid, mq, rules, answersMap, explicitBreak),
                  lid, mq, rules, answersMap, explicitBreak)

\* The module-level replayLevel({ levelId, lvl, levelRules, answersMap, healthState }).
replayLevel(lid, mq, rules, answersMap, hs) ==
  ReplayResult(ReplayLoop(ReplayLocals(hs), lid, mq, rules, answersMap, TRUE), answersMap)

\* The replayLevel nested in LevelWizard, which onAnswer calls.
LevelWizard_replayLevel(lid, mq, rules, answersMap, hs) ==
  ReplayResult(ReplayLoop(ReplayLocals(hs), lid, mq, rules, answersMap, FALSE), answersMap)

----------------------------------------------------------------------------
(* Rule-sheet vocabulary of the model: node ids, fields, option values,    *)
(* reasons and phrases.                                                    *)

sL1Q0 == <<"L", "1", "Q", "0">>
sL1Q1 == <<"L", "1", "Q", "1">>
sL1Q2 == <<"L", "1", "Q", "2">>
sL1Q3 == <<"L", "1", "Q", "3">>
sAmount == <<"a", "m", "o", "u", "n", "t">>
sAge == <<"a", "g", "e">>
s100 == <<"1", "0", "0">>
s200 == <<"2", "0", "0">>
s18 == <<"1", "8">>
sNOT_OK == <<"N", "O", "T", "_", "O", "K">>
sTOO_YOUNG == <<"T", "O", "O", "_", "Y", "O", "U", "N", "G">>
sPhraseA == <<"p", "h", "r", "a", "s", "e", "_", "a">>
sPhraseB == <<"p", "h", "r", "a", "s", "e", "_", "b">>

Route(field, value, goto, resetTo, reason, print, set, guard) ==
  [when |-> [op |-> Str(sEq), field |-> Str(field), value |-> value],
   goto_node |-> goto, reset_to |-> resetTo, reason |-> reason, print |-> print,
   set |-> set, guard |-> guard]

Guard(field, op, value, next, reason) ==
  [present |-> TRUE, field |-> Str(field), op |-> Str(op), value |-> Str(value),
   next |-> Str(next), reason |-> Str(reason)]

SetGift == [k \in {sGIFT} |-> Bool(TRUE)]
SetNiyabat == [k \in {sNIYABAT} |-> Bool(TRUE)]

\* Routes of an options3 node on field amount.  The first seven have no guard
\* and cover every destination; the next six are guarded by age >= 18 and
\* cover every guard next and reason; the last two answer to the other option.
StepRoutes ==
  LET A == Str(s100)
      B == Str(s200)
      U == Undefined
  IN { Route(sAmount, A, Str(sL1Q2), U, U, Str(sPhraseA), SetGift, NoGuard),
       Route(sAmount, A, Str(sFAIL), U, Str(sNOT_OK), U, EmptyObj, NoGuard),
       Route(sAmount, A, Str(sFAIL), U, U, U, SetGift, NoGuard),
       Route(sAmount, A, Str(sEND), U, U, Str(sPhraseB), SetNiyabat, NoGuard),
       Route(sAmount, A, U, U, U, U, SetNiyabat, NoGuard),
       Route(sAmount, A, U, Str(sL1Q1), U, U, EmptyObj, NoGuard),
       Route(sAmount, A, Str(sFAIL), Str(sL1Q1), Str(sNOT_OK), U, EmptyObj, NoGuard),
       Route(sAmount, A, Str(sL1Q3), U, U, Str(sPhraseA), SetGift,
             Guard(sAge, sGe, s18, sFAIL, sTOO_YOUNG)),
       Route(sAmount, A, Str(sL1Q3), U, U, U, SetGift, Guard(sAge, sGe, s18, sFAIL, <<>>)),
       Route(sAmount, A, Str(sL1Q3), U, U, Str(sPhraseB), SetGift,
             Guard(sAge, sGe, s18, sEND, sTOO_YOUNG)),
       Route(sAmount, A, Str(sL1Q3), U, U, U, SetGift,
             Guard(sAge, sGe, s18, sL1Q2, sTOO_YOUNG)),
       Route(sAmount, A, Str(sL1Q3), U, U, U, SetGift, Guard(sAge, sGe, s18, <<>>, <<>>)),
       Route(sAmount, A, Str(sL1Q3), U, U, U, SetGift,
             Guard(sAge, sGe, s18, <<>>, sTOO_YOUNG)),
       Route(sAmount, B, Str(sL1Q3), U, U, U, SetNiyabat, NoGuard),
       Route(sAmount, B, U, U, U, U, EmptyObj, Guard(sAge, sLt, s18, sEND, <<>>)) }

\* All sequences over S of length at most k.
RECURSIVE SeqsUpTo(_, _)
SeqsUpTo(S, k) ==
  IF k = 0 THEN {<<>>}
  ELSE LET shorter == SeqsUpTo(S, k - 1) IN
       shorter \cup {Append(q, x) : q \in {p \in shorter : Len(p) = k - 1}, x \in S}

StepFallbacks == {Null, Str(sFAIL), Str(sEND), Str(sL1Q3)}
StepAnswers == {Str(s100), Str(s200)}

StepVars == {Assign(defaultVars(Undefined), [k \in {sAge} |-> Num(a)]) : a \in {15, 20}}

----------------------------------------------------------------------------
(* The state of the parts of the program a specification leaves alone.     *)

\* No pure function is being called.
NoCall == [fn |-> "none", pc |-> "idle"]

NoScan == [taken |-> 0, viaGuard |-> FALSE, last |-> 0]

IdleStep == [pc |-> "idle", nodeId |-> Undefined, uiAnswer |-> Undefined,
             vars |-> EmptyObj, res |-> OkOnly, scan |-> NoScan, mem |-> NoMem]

NoResult == [path |-> <<>>, vars |-> EmptyObj, stop |-> NoStop, ended |-> FALSE,
             answers |-> EmptyObj, print |-> Null, guardReason |-> Null]

IdleLocals == [qIdx |-> Null, seen |-> {}, path |-> <<>>, vars |-> EmptyObj,
               stop |-> NoStop, ended |-> FALSE, print |-> Null, guardReason |-> Null,
               running |-> FALSE]

IdleReplay == [pc |-> "idle", explicitBreak |-> TRUE, answersMap |-> EmptyObj,
               loc |-> IdleLocals, iter |-> 0, result |-> NoResult]

NoFirst == [kind |-> "none", answersMap |-> EmptyObj, result |-> NoResult]

WizardMounted ==
  /\ answers = EmptyObj
  /\ vars = EmptyObj
  /\ path = <<0>>
  /\ stop = NoStop
  /\ ended = FALSE
  /\ resultPhrase = Null
  /\ guardReasonKey = Null
  /\ touched = FALSE
  /\ dropped = {}

wizardVars == <<answers, vars, path, stop, ended, resultPhrase, guardReasonKey, touched,
                dropped>>

----------------------------------------------------------------------------
(* SpecStep: evalRoutesFor as a function of its arguments.  The level      *)
(* graph holds one options3 node L1Q1 on field amount whose routes are any *)
(* sequence of at most MaxRoutes routes of StepRoutes.                     *)

InitStep ==
  /\ call = NoCall
  /\ levelId = 1
  /\ maxQ = 1
  /\ healthState = Undefined
  /\ \E rs \in SeqsUpTo(StepRoutes, MaxRoutes), fb \in StepFallbacks :
       levelRules = [entry_node |-> Str(sL1Q1),
                     nodes |-> << [id |-> Str(sL1Q1), field |-> Str(sAmount),
                                   input_type |-> Str(sOptions3), routes |-> rs,
                                   fallback_node |-> fb] >>,
                     fallback_node |-> Null]
  /\ \E a \in StepAnswers, vs \in StepVars :
       step = [pc |-> "call", nodeId |-> Str(sL1Q1), uiAnswer |-> a, vars |-> vs,
               res |-> OkOnly, scan |-> NoScan,
               mem |-> MemAtCall(levelRules, Str(sL1Q1), vs)]
  /\ rp = IdleReplay
  /\ first = NoFirst
  /\ WizardMounted

\* One call of evalRoutesFor(levelRules, nodeId, uiAnswer, vars).
EvalStep ==
  /\ step.pc = "call"
  /\ step' = [step EXCEPT
       !.pc = "returned",
       !.res = evalRoutesFor(levelRules, step.nodeId, step.uiAnswer, step.vars),
       !.scan = routesExamined(levelRules, step.nodeId, step.uiAnswer, step.vars),
       !.mem = MemAfterCall(levelRules, step.nodeId, step.uiAnswer, step.vars)]
  /\ UNCHANGED <<call, levelRules, levelId, maxQ, healthState, rp, first>>
  /\ UNCHANGED wizardVars

NextStep == EvalStep

SpecStep == InitStep /\ [][NextStep]_allVars

----------------------------------------------------------------------------
(* Level graphs of the replay specifications: level 1 with bool nodes      *)
(* L1Q1, L1Q2, L1Q3, each either missing or of one of six shapes.          *)

sEligible == <<"e", "l", "i", "g", "i", "b", "l", "e">>
sL1Q4 == <<"L", "1", "Q", "4">>
sHOME == <<"H", "O", "M", "E">>
sYes == <<"Y", "e", "s">>
sNo == <<"N", "o">>

NodeIds == <<sL1Q1, sL1Q2, sL1Q3, sL1Q4>>
FieldOf(k) == IF k = 1 THEN sEligible ELSE NodeIds[k]

BoolNode(k, routes, fb) ==
  [id |-> Str(NodeIds[k]), field |-> Str(FieldOf(k)), input_type |-> Str(sBool),
   routes |-> routes, fallback_node |-> fb]

\* The shapes of node k; its "next" node is node k + 1.
NodeShapes(k) ==
  LET f == FieldOf(k)
      nx == Str(NodeIds[k + 1])
      U == Undefined
      T == Bool(TRUE)
      F == Bool(FALSE)
  IN { \* gate: Yes goes on, No fails with a reason
       BoolNode(k, << Route(f, T, nx, U, U, U, EmptyObj, NoGuard),
                      Route(f, F, Str(sFAIL), U, Str(sNOT_OK), U, EmptyObj, NoGuard) >>, Null),
       \* Yes ends the level with a phrase and a set effect, No goes on
       BoolNode(k, << Route(f, T, Str(sEND), U, U, Str(sPhraseB), SetNiyabat, NoGuard),
                      Route(f, F, nx, U, U, U, EmptyObj, NoGuard) >>, Null),
       \* Yes goes back to the first node, anything else falls back to the third
       BoolNode(k, << Route(f, T, Str(sL1Q1), U, U, U, EmptyObj, NoGuard) >>, Str(sL1Q3)),
       \* Yes jumps to the third node and sets GIFT, No to the second
       BoolNode(k, << Route(f, T, Str(sL1Q3), U, U, Str(sPhraseA), SetGift, NoGuard),
                      Route(f, F, Str(sL1Q2), U, U, U, EmptyObj, NoGuard) >>, Null),
       \* Yes ends through a guard on GIFT or else goes on, No is accepted with no destination
       BoolNode(k, << Route(f, T, nx, U, U, U, EmptyObj,
                            Guard(sGIFT, sEq, sTrueLC, sEND, sTOO_YOUNG)),
                      Route(f, T, nx, U, U, U, EmptyObj, NoGuard),
                      Route(f, F, U, U, U, U, SetNiyabat, NoGuard) >>, Null),
       \* destinations that name no question: index -1, and an id without "Q"
       BoolNode(k, << Route(f, T, Str(sL1Q0), U, U, U, EmptyObj, NoGuard) >>, Str(sHOME)) }

\* The node lists: for each of the three ids, no node or a node of one shape.
RECURSIVE NodeLists(_)
NodeLists(k) ==
  IF k = 0 THEN {<<>>}
  ELSE LET shorter == NodeLists(k - 1) IN
       shorter \cup {Append(ns, nd) : ns \in shorter, nd \in NodeShapes(k)}

ReplayGraphs ==
  {[entry_node |-> IF ns = <<>> THEN Null ELSE ns[1].id, nodes |-> ns, fallback_node |-> Null] :
     ns \in NodeLists(3)}

AnswerValues == {Str(sYes), Str(sNo)}

\* The answers maps over the questions 0 .. mq - 1.
AnswerMaps(mq) ==
  UNION {[D -> AnswerValues] : D \in SUBSET (0..(mq - 1))}

----------------------------------------------------------------------------
(* SpecReplay: calls of replayLevel, one loop iteration per step, of the    *)
(* module-level function (explicitBreak) or of the one nested in           *)
(* LevelWizard.  After the first call returns, a second call of the same   *)
(* function has the same arguments or has the returned pruned answers as   *)
(* its answers map; first keeps the result of the first call.              *)

InitReplay ==
  /\ call = NoCall
  /\ levelId = 1
  /\ maxQ = MaxQuestions
  /\ healthState \in {Undefined, Str(sRED)}
  /\ levelRules \in ReplayGraphs
  /\ step = IdleStep
  /\ rp = IdleReplay
  /\ first = NoFirst
  /\ WizardMounted

Enter(explicitBreak, answersMap) ==
  [pc |-> "loop", explicitBreak |-> explicitBreak, answersMap |-> answersMap,
   loc |-> ReplayLocals(healthState), iter |-> 0, result |-> NoResult]

\* The first call of replayLevel, with any answers map.
ReplayCall ==
  /\ rp.pc = "idle"
  /\ \E eb \in BOOLEAN, am \in AnswerMaps(maxQ) : rp' = Enter(eb, am)
  /\ first' = NoFirst
  /\ UNCHANGED <<call, levelRules, levelId, maxQ, healthState, step>>
  /\ UNCHANGED wizardVars

\* replayLevel is called again with the arguments of the call that returned.
ReplayAgain ==
  /\ rp.pc = "done"
  /\ first.kind = "none"
  /\ rp' = Enter(rp.explicitBreak, rp.answersMap)
  /\ first' = [kind |-> "same", answersMap |-> rp.answersMap, result |-> rp.result]
  /\ UNCHANGED <<call, levelRules, levelId, maxQ, healthState, step>>
  /\ UNCHANGED wizardVars

\* replayLevel is called with the pruned answers of the call that returned.
ReplayPruned ==
  /\ rp.pc = "done"
  /\ first.kind = "none"
  /\ rp' = Enter(rp.explicitBreak, rp.result.answers)
  /\ first' = [kind |-> "pruned", answersMap |-> rp.answersMap, result |-> rp.result]
  /\ UNCHANGED <<call, levelRules, levelId, maxQ, healthState, step>>
  /\ UNCHANGED wizardVars

\* One evaluation of the while condition and one pass through the loop body.
ReplayStep ==
  /\ rp.pc = "loop"
  /\ rp.loc.running
  /\ rp' = [rp EXCEPT
       !.loc = ReplayIteration(rp.loc, levelId, maxQ, levelRules, rp.answersMap,
                               rp.explicitBreak),
       !.iter = @ + 1]
  /\ UNCHANGED <<call, levelRules, levelId, maxQ, healthState, step, first>>
  /\ UNCHANGED wizardVars

\* The code after the loop: pruning and the return.
ReplayReturn ==
  /\ rp.pc = "loop"
  /\ ~rp.loc.running
  /\ rp' = [rp EXCEPT !.pc = "done", !.result = ReplayResult(rp.loc, rp.answersMap)]
  /\ UNCHANGED <<call, levelRules, levelId, maxQ, healthState, step, first>>
  /\ UNCHANGED wizardVars

NextReplay ==
  \/ ReplayCall
  \/ ReplayAgain
  \/ ReplayPruned
  \/ ReplayStep
  \/ ReplayReturn

SpecReplay == InitReplay /\ [][NextReplay]_allVars

----------------------------------------------------------------------------
(* Spec: the LevelWizard of level 1.  The respondent answers any question  *)
(* shown (the questions of path) with one of its labels; every answer runs *)
(* onAnswer to its end.                                                    *)

\* The logic as the app holds it: not loaded (null), or the object of the
\* graphs by level key.  A rules object without a node array has no nodes
\* field.
NoLogic == [loaded |-> FALSE, byLevel |-> EmptyObj]
LogicOf(byLevel) == [loaded |-> TRUE, byLevel |-> byLevel]

NoRules == [entry_node |-> Null, nodes |-> <<>>, fallback_node |-> Null]

\* getLevelRulesOrThrow: threw, or the rules returned.
getLevelRulesOrThrow_AllowsEmpty(lid, logic) ==
  LET key == ToStringJS(Num(lid)) IN
  IF ~logic.loaded THEN [threw |-> TRUE, rules |-> NoRules]
  ELSE IF key \notin DOMAIN logic.byLevel THEN [threw |-> TRUE, rules |-> NoRules]
  ELSE IF "nodes" \notin DOMAIN logic.byLevel[key] THEN [threw |-> TRUE, rules |-> NoRules]
  ELSE [threw |-> FALSE, rules |-> logic.byLevel[key]]

getLevelRulesOrThrow(lid, logic) ==
  LET key == ToStringJS(Num(lid)) IN
  IF ~logic.loaded THEN [threw |-> TRUE, rules |-> NoRules]
  ELSE IF key \notin DOMAIN logic.byLevel THEN [threw |-> TRUE, rules |-> NoRules]
  ELSE IF "nodes" \notin DOMAIN logic.byLevel[key] THEN [threw |-> TRUE, rules |-> NoRules]
  ELSE IF Len(logic.byLevel[key].nodes) = 0 THEN [threw |-> TRUE, rules |-> NoRules]
  ELSE [threw |-> FALSE, rules |-> logic.byLevel[key]]

\* The graphs the LevelWizard of level 1 can be rendered with.
WizardGraphs ==
  {g \in ReplayGraphs :
     ~getLevelRulesOrThrow(1, LogicOf([k \in {<<"1">>} |-> g])).threw}

Range(q) == {q[i] : i \in 1..Len(q)}

\* getLabels(qIndex) for a question without labels in the questions sheet.
getLabels(rules, lid, qIndex) ==
  LET k == FindNode(rules.nodes, nodeIdFor(lid, qIndex)) IN
  IF k # 0 /\ rules.nodes[k].input_type = Str(sOptions3)
  THEN {Str(<<"f", "u", "l", "l", " ", "p", "a", "c", "k", "a", "g", "e">>),
        Str(<<"p", "a", "r", "t", "i", "a", "l", " ", "p", "a", "c", "k", "a", "g", "e">>),
        Str(<<"o", "t", "h", "e", "r">>)}
  ELSE {Str(sYes), Str(sNo)}

\* The answers onAnswer stores: setAnswers(na).
StoredAnswers_Unpruned(r, nextAnswers) == nextAnswers

StoredAnswers(r, nextAnswers) == r.answers

Init ==
  /\ call = NoCall
  /\ levelId = 1
  /\ maxQ = MaxQuestions
  /\ healthState \in {Str(sGREEN), Str(sRED)}
  /\ levelRules \in WizardGraphs
  /\ step = IdleStep
  /\ rp = IdleReplay
  /\ first = NoFirst
  /\ WizardMounted

\* The setters of onAnswer, from the result r of the replay over nextAnswers.
SetFromReplay(r, nextAnswers) ==
  /\ answers' = StoredAnswers(r, nextAnswers)
  /\ vars' = r.vars
  /\ path' = r.path
  /\ stop' = r.stop
  /\ ended' = r.ended
  /\ resultPhrase' = OrElse(r.print, Null)
  /\ guardReasonKey' = OrElse(r.guardReason, Null)
  /\ touched' = TRUE
  /\ dropped' = (DOMAIN nextAnswers) \ (DOMAIN r.answers)
  /\ UNCHANGED <<call, levelRules, levelId, maxQ, healthState, step, rp, first>>

NextAnswers(qIndex, value) == Assign(answers, [k \in {qIndex} |-> value])

onAnswer(qIndex, value) ==
  SetFromReplay(LevelWizard_replayLevel(levelId, maxQ, levelRules,
                                        NextAnswers(qIndex, value), healthState),
                NextAnswers(qIndex, value))

\* A click on a label of a question that is shown.
Answer ==
  \E q \in Range(path) : \E v \in getLabels(levelRules, levelId, q) : onAnswer(q, v)

Next == Answer

Spec == Init /\ [][Next]_allVars

----------------------------------------------------------------------------
(* Properties of evalRoutesFor, checked under SpecStep.                    *)

StepReturned == step.pc = "returned"
StepNode == levelRules.nodes[1]
StepRoutesOf == StepNode.routes

\* vars with the answer of the options3 node recorded under its field.
StepRecorded == Assign(step.vars, [k \in {StepNode.field.s} |-> step.uiAnswer])

\* The routes whose when-condition matches, and those of them that are taken
\* when reached: no guard, or a guard that matches.
Matching == {i \in 1..Len(StepRoutesOf) : WhenMatches(StepRoutesOf[i], StepRecorded)}
Takeable == {i \in Matching :
               StepRoutesOf[i].guard.present => GuardMatches(StepRoutesOf[i], StepRecorded)}
Blocked == Matching \ Takeable
Least(S) == CHOOSE x \in S : \A y \in S : x <= y

\* levelRules without route i of its node.
WithoutRoute(i) ==
  [levelRules EXCEPT !.nodes[1].routes =
     SubSeq(StepRoutesOf, 1, i - 1) \o SubSeq(StepRoutesOf, i + 1, Len(StepRoutesOf))]

GuardDecides ==
  /\ StepReturned
  /\ Matching # {}
  /\ StepRoutesOf[Least(Matching)].guard.present
  /\ GuardMatches(StepRoutesOf[Least(Matching)], StepRecorded)

\* C9 as stated: guard next "FAIL" gives a failure with the guard's reason;
\* "END" completion; another non-empty next an advance to it; an empty next a
\* failure with the guard's reason, or "L" when the guard has none.
C9_GuardNextAsStated ==
  GuardDecides
    => LET g == StepRoutesOf[Least(Matching)].guard
           res == step.res
       IN CASE g.next = Str(sFAIL) -> ~res.ok /\ ~res.complete /\ res.reason = g.reason
            [] g.next = Str(sEND) -> res.ok /\ res.complete /\ res.nextNode = Undefined
            [] g.next # Str(<<>>) -> res.ok /\ ~res.complete /\ res.nextNode = g.next
            [] OTHER -> /\ ~res.ok /\ ~res.complete
                        /\ res.reason = IF g.reason = Str(<<>>) THEN Str(sL) ELSE g.reason

\* C9 (amended): as stated, except that a guard next "FAIL" too gives the
\* literal "L" as reason when the guard has no reason.
C9_GuardNextDecides ==
  GuardDecides
    => LET g == StepRoutesOf[Least(Matching)].guard
           res == step.res
           reasonOrL == IF g.reason = Str(<<>>) THEN Str(sL) ELSE g.reason
       IN CASE g.next = Str(sFAIL) ->
                 ~res.ok /\ ~res.complete /\ res.reason = reasonOrL
                 /\ res.nextNode = Undefined
            [] g.next = Str(sEND) -> res.ok /\ res.complete /\ res.nextNode = Undefined
            [] g.next # Str(<<>>) -> res.ok /\ ~res.complete /\ res.nextNode = g.next
            [] OTHER -> ~res.ok /\ ~res.complete /\ res.reason = reasonOrL
                        /\ res.nextNode = Undefined

\* A matching guard with an empty next and a reason: the step fails with that reason.
C9_Witness ==
  /\ GuardDecides
  /\ StepRoutesOf[Least(Matching)].guard.next = Str(<<>>)
  /\ StepRoutesOf[Least(Matching)].guard.reason = Str(sTOO_YOUNG)
  /\ ~step.res.ok /\ step.res.reason = Str(sTOO_YOUNG)

\* The taken route, when it has no guard.
UnguardedTaken ==
  /\ StepReturned
  /\ Takeable # {}
  /\ ~StepRoutesOf[Least(Takeable)].guard.present

----------------------------------------------------------------------------
(* Properties of replayLevel, checked under SpecReplay.                    *)

ReplayDone == rp.pc = "done"

C2_PruningIdempotent ==
  (ReplayDone /\ first.kind = "pruned")
    => /\ rp.result.answers = first.result.answers
       /\ rp.result.path = first.result.path

\* The first replay dropped an answer and kept two; the pruned answers were replayed.
C2_Witness ==
  /\ ReplayDone /\ first.kind = "pruned"
  /\ DOMAIN first.result.answers # DOMAIN first.answersMap
  /\ Cardinality(DOMAIN first.result.answers) >= 2
  /\ rp.answersMap = first.result.answers

\* C3: the pruned answers are the answers map restricted to the indices of the
\* returned path: each answer on the path kept unchanged, every other dropped.
C3_PrunedIsRestriction ==
  ReplayDone
    => rp.result.answers =
         [i \in (DOMAIN rp.answersMap) \cap Range(rp.result.path) |-> rp.answersMap[i]]

\* A replay that jumped over question 1: its answer is dropped, those of 0 and 2 are kept.
C3_Witness ==
  /\ ReplayDone
  /\ rp.result.path = <<0, 2>>
  /\ DOMAIN rp.answersMap = {0, 1, 2}
  /\ DOMAIN rp.result.answers = {0, 2}

\* The indices a walk over the graph can visit: 0 and the index of every
\* route destination, guard next and fallback below the number of questions.
Destinations ==
  UNION {{nd.fallback_node} \cup UNION {{r.goto_node, r.reset_to, r.guard.next} :
                                         r \in Range(nd.routes)} :
         nd \in Range(levelRules.nodes)}
VisitableIndices ==
  {0} \cup {indexFromNodeId(d).n : d \in {x \in Destinations : indexFromNodeId(x) # Null}}

\* C5: replayLevel terminates on every graph and answers map, cycles included:
\* every pass through the loop body but the last visits an index below the
\* number of questions that the call has not visited before, and these are
\* indices the graph's destinations name, so the loop is left after at most
\* one pass per visitable index plus one.
C5_ReplayTerminates ==
  /\ rp.iter <= Cardinality(rp.loc.seen) + 1
  /\ Len(rp.loc.path) = Cardinality(rp.loc.seen)
  /\ \A i \in rp.loc.seen : i < maxQ
  /\ ReplayDone => rp.loc.seen \subseteq VisitableIndices

\* A call that returned after a destination led back to an index it had visited.
C5_Witness ==
  /\ ReplayDone
  /\ Len(rp.result.path) >= 2
  /\ rp.loc.qIdx # Null
  /\ rp.loc.qIdx.n \in rp.loc.seen
  /\ rp.loc.qIdx.n # rp.result.path[Len(rp.result.path)]
  /\ rp.result.stop.isNull /\ ~rp.result.ended

----------------------------------------------------------------------------
(* Properties of the LevelWizard, checked under Spec.                      *)

\* C4: after onAnswer calls the stored answers hold only indices of the stored
\* path, and the stored path, vars, stop and ended are the result of one
\* replay from index 0 over the stored answers.
C4_StateIsReplayOfAnswers ==
  touched
    => LET r == LevelWizard_replayLevel(levelId, maxQ, levelRules, answers, healthState) IN
       /\ DOMAIN answers \subseteq Range(path)
       /\ path = r.path
       /\ vars = r.vars
       /\ stop = r.stop
       /\ ended = r.ended
       /\ answers = r.answers

\* An answer to an earlier question was changed and the answer of a question
\* that is no longer reached was discarded.
C4_Witness ==
  /\ touched
  /\ dropped # {}
  /\ \E i \in dropped : \E j \in DOMAIN answers : j < i

----------------------------------------------------------------------------
(* More properties of evalRoutesFor, checked under SpecStep.               *)

\* C11: when no route of the node is taken the fallback decides: "FAIL" a
\* failure with reason "L", "END" a completion, another non-empty fallback an
\* advance to that node id, no fallback an ok outcome with no next node; the
\* returned vars carry the recorded answer and nothing else new.
C11_FallbackDecides ==
  (StepReturned /\ Takeable = {})
    => LET fb == StepNode.fallback_node
           res == step.res
       IN /\ res.hasVars /\ res.vars = StepRecorded
          /\ res.print = Undefined /\ res.action = Undefined
          /\ CASE fb = Str(sFAIL) ->
                    ~res.ok /\ ~res.complete /\ res.reason = Str(sL)
                    /\ res.nextNode = Undefined
               [] fb = Str(sEND) ->
                    res.ok /\ res.complete /\ res.nextNode = Undefined
                    /\ res.reason = Undefined
               [] fb = Null ->
                    res.ok /\ ~res.complete /\ res.nextNode = Undefined
                    /\ res.reason = Undefined
               [] OTHER ->
                    res.ok /\ ~res.complete /\ res.nextNode = fb
                    /\ res.reason = Undefined

\* Routes for another option only and fallback "END": the step completes.
C11_Witness ==
  /\ StepReturned
  /\ Len(StepRoutesOf) >= 1
  /\ Matching = {}
  /\ StepNode.fallback_node = Str(sEND)
  /\ step.res.ok /\ step.res.complete

----------------------------------------------------------------------------
(* More properties of replayLevel, checked under SpecReplay.               *)

\* The call is about to evaluate the while condition; InBody: the condition
\* holds and the index is new, so the loop body runs for it; Answered: the
\* body finds an answer and calls passesRule, which returns CurRes.
AtCondition == rp.pc = "loop" /\ rp.loc.running
InBody ==
  /\ AtCondition
  /\ rp.loc.qIdx # Null
  /\ rp.loc.qIdx.n < maxQ
  /\ rp.loc.qIdx.n \notin rp.loc.seen
Answered == InBody /\ Get(rp.answersMap, rp.loc.qIdx.n) # Undefined
CurRes ==
  passesRule(levelId, rp.loc.qIdx.n, Get(rp.answersMap, rp.loc.qIdx.n), levelRules,
             rp.loc.vars)
Advances == Answered /\ CurRes.ok /\ ~CurRes.complete /\ Truthy(CurRes.nextNode)

\* C13 as stated: after a step returns an advance to node id X the walk goes
\* on at the node with id X, a question of the level whose index is appended
\* to the path.
C13_AdvanceReachesTarget ==
  [][Advances
       => /\ rp'.loc.running
          /\ rp'.loc.qIdx # Null
          /\ nodeIdFor(levelId, rp'.loc.qIdx.n) = CurRes.nextNode
          /\ rp'.loc.qIdx.n \in 0..(maxQ - 1)
          /\ rp'.loc.qIdx.n \notin rp'.loc.seen]_allVars

\* C13 (amended): after a step returns an advance to node id X the current
\* index becomes the index X names (the number after its first "Q" minus
\* one, or none), never index + 1 on its own, and a step without a next node
\* leaves the index where it is; at the next evaluation of the loop the index
\* is appended to the path when it is below the number of questions and was
\* not visited before in the call, and otherwise the walk ends with the path
\* as it is.  For an id of the level that names a question, the node at that
\* index is the node with id X.
C13_AdvanceSetsIndex ==
  [][AtCondition
       => IF ~InBody THEN rp'.loc.path = rp.loc.path /\ ~rp'.loc.running
          ELSE /\ rp'.loc.path = Append(rp.loc.path, rp.loc.qIdx.n)
               /\ rp'.loc.seen = rp.loc.seen \cup {rp.loc.qIdx.n}
               /\ Get(rp.answersMap, rp.loc.qIdx.n) # Undefined
                    => LET res == CurRes IN
                       (res.ok /\ ~res.complete)
                         => IF Truthy(res.nextNode)
                            THEN /\ rp'.loc.qIdx = indexFromNodeId(res.nextNode)
                                 /\ rp'.loc.running
                                 /\ rp'.loc.qIdx # Null
                                      => nodeIdFor(levelId, rp'.loc.qIdx.n) = res.nextNode
                            ELSE rp'.loc.qIdx = rp.loc.qIdx]_allVars

\* The bool gate answered "Yes": the path is [0, 1] and stop stays null.
C13_Witness ==
  /\ ReplayDone
  /\ levelRules.nodes # <<>>
  /\ levelRules.nodes[1].id = Str(sL1Q1)
  /\ Len(levelRules.nodes[1].routes) = 2
  /\ levelRules.nodes[1].routes[1].goto_node = Str(sL1Q2)
  /\ levelRules.nodes[1].routes[2].goto_node = Str(sFAIL)
  /\ rp.answersMap = [k \in {0} |-> Str(sYes)]
  /\ rp.result.path = <<0, 1>>
  /\ rp.result.stop.isNull /\ ~rp.result.ended

\* The question the loop body is at has an answer and no node in the graph.
AtMissingNode ==
  Answered /\ FindNode(levelRules.nodes, nodeIdFor(levelId, rp.loc.qIdx.n)) = 0

\* C14: the step on a node id that is not in the level graph returns
\* { ok: true } and nothing else; the replay keeps its vars, print and
\* guardReason, sets neither stop nor ended, stays at the index and ends the
\* walk there, at once or at the next evaluation of the while condition.
C14_MissingNodeHalts ==
  [][AtMissingNode
       => /\ CurRes = OkOnly
          /\ rp'.loc.vars = rp.loc.vars
          /\ rp'.loc.print = rp.loc.print
          /\ rp'.loc.guardReason = rp.loc.guardReason
          /\ rp'.loc.stop = NoStop /\ ~rp'.loc.ended
          /\ rp'.loc.qIdx = rp.loc.qIdx
          /\ rp'.loc.path = Append(rp.loc.path, rp.loc.qIdx.n)
          /\ rp'.loc.running => rp'.loc.qIdx.n \in rp'.loc.seen]_allVars

\* A gate sent the walk on to L1Q2, which has an answer and no node: the
\* replay returned path [0, 1] with stop null and ended false.
C14_Witness ==
  /\ ReplayDone
  /\ rp.result.path = <<0, 1>>
  /\ FindNode(levelRules.nodes, Str(sL1Q2)) = 0
  /\ Get(rp.answersMap, 1) # Undefined
  /\ rp.result.stop.isNull /\ ~rp.result.ended
  /\ DOMAIN rp.result.vars = DOMAIN defaultVars(healthState) \cup {sEligible}

\* The fields of the nodes a call has evaluated so far: those of the answered
\* questions of its path that have a node.
FieldsEvaluated(loc) ==
  {levelRules.nodes[FindNode(levelRules.nodes, nodeIdFor(levelId, q))].field.s :
     q \in {i \in Range(loc.path) :
              /\ Get(rp.answersMap, i) # Undefined
              /\ FindNode(levelRules.nodes, nodeIdFor(levelId, i)) # 0}}

\* C17: a replay starts from NIYABAT = false, GIFT = false, HEALTH_STATE = the
\* inherited state (GREEN when none) and END_PHRASE = null; no step of it
\* removes a key of vars, and at every point vars holds the field of every
\* node the replay has evaluated so far.
C17_VarsKeysGrow ==
  [][/\ (rp'.pc = "loop" /\ rp'.iter = 0)
          => rp'.loc.vars =
               [k \in {sNIYABAT, sGIFT, sHEALTH_STATE, sEND_PHRASE} |->
                  CASE k = sHEALTH_STATE ->
                         IF healthState = Undefined THEN Str(sGREEN) ELSE healthState
                    [] k = sEND_PHRASE -> Null
                    [] OTHER -> Bool(FALSE)]
     /\ AtCondition
          => /\ DOMAIN rp.loc.vars \subseteq DOMAIN rp'.loc.vars
             /\ FieldsEvaluated(rp'.loc) \subseteq DOMAIN rp'.loc.vars
             /\ {sNIYABAT, sGIFT, sHEALTH_STATE, sEND_PHRASE} \subseteq DOMAIN rp'.loc.vars
    ]_allVars

\* A replay with inherited state RED that evaluated two nodes: vars holds the
\* four defaults and both fields.
C17_Witness ==
  /\ ReplayDone
  /\ healthState = Str(sRED)
  /\ Get(rp.result.vars, sHEALTH_STATE) = Str(sRED)
  /\ Cardinality(FieldsEvaluated(rp.loc)) = 2
  /\ Cardinality(DOMAIN rp.result.vars) = 6

\* The indices of the returned path that have no answer in the answers map.
Unanswered == {i \in Range(rp.result.path) : Get(rp.answersMap, i) = Undefined}

\* The returned call stopped at an index without an answer: it is the last
\* of the path and the only one without an answer, stop is null, ended false.
WaitsAtLast ==
  (ReplayDone /\ Unanswered # {})
    => /\ Unanswered = {rp.result.path[Len(rp.result.path)]}
       /\ rp.result.stop.isNull
       /\ ~rp.result.ended

\* C18: replayLevel stops at the first index of its walk that has no answer:
\* the index is appended to the path and the loop is left with no step
\* evaluated (vars, print, guardReason, stop and ended stay as they are); in
\* the result it is the last index of the path, every other index of the
\* path has an answer, stop is null and ended is false.
C18_WaitsAtFirstUnanswered ==
  [][/\ (InBody /\ ~Answered)
          => rp'.loc = [rp.loc EXCEPT !.seen = @ \cup {rp.loc.qIdx.n},
                                      !.path = Append(@, rp.loc.qIdx.n),
                                      !.running = FALSE]
     /\ WaitsAtLast']_allVars

\* Two answered questions were walked and the third has no answer yet.
C18_Witness ==
  /\ ReplayDone
  /\ Len(rp.result.path) = 3
  /\ Unanswered = {rp.result.path[3]}
  /\ DOMAIN rp.result.answers = {rp.result.path[1], rp.result.path[2]}
  /\ rp.result.stop.isNull /\ ~rp.result.ended

\* C19: a completion outcome sets ended and ends the walk; a failure outcome
\* sets stop to the index of the question whose step failed and the reason
\* of the step, and ends the walk; in both cases the question is the last
\* index of the path, and the call returns the path, stop and ended it has
\* when the loop is left.
C19_OutcomeToResult ==
  [][/\ Answered
          => LET res == CurRes
                 q == rp.loc.qIdx.n
             IN /\ res.complete
                     => /\ rp'.loc.ended /\ ~rp'.loc.running
                        /\ rp'.loc.stop = NoStop
                        /\ rp'.loc.path = Append(rp.loc.path, q)
                /\ (~res.complete /\ ~res.ok)
                     => /\ rp'.loc.stop = [isNull |-> FALSE, qIndex |-> q,
                                           reason |-> res.reason]
                        /\ ~rp'.loc.ended /\ ~rp'.loc.running
                        /\ rp'.loc.path = Append(rp.loc.path, q)
                /\ (~res.complete /\ res.ok)
                     => rp'.loc.stop = NoStop /\ ~rp'.loc.ended
     /\ (rp.pc = "loop" /\ ~rp.loc.running)
          => /\ rp'.result.path = rp.loc.path
             /\ rp'.result.stop = rp.loc.stop
             /\ rp'.result.ended = rp.loc.ended]_allVars

\* The step of the second question failed with the reason of its route.
C19_Witness ==
  /\ ReplayDone
  /\ rp.result.path = <<0, 1>>
  /\ rp.result.stop = [isNull |-> FALSE, qIndex |-> 1, reason |-> Str(sNOT_OK)]
  /\ ~rp.result.ended

----------------------------------------------------------------------------
(* The objects evalRoutesFor is given, checked under SpecStep.             *)

----------------------------------------------------------------------------
(* SpecAnswer: evalRoutesFor on one node L1Q1 on field eligible, of input  *)
(* type bool or options3, for answers in several spellings.  A bool node   *)
(* has routes on true and false, an options3 node routes on label texts.   *)

\* The answers tried, by spelling; true and false are given as booleans too.
AnswerText ==
  [Yes |-> Str(sYes), YesLower |-> Str(sYesLC), TrueUpper |-> Str(<<"T", "R", "U", "E">>),
   TrueLower |-> Str(sTrueLC), No |-> Str(sNo), NoMixed |-> Str(<<"n", "O">>),
   FalseCap |-> Str(<<"F", "a", "l", "s", "e">>), FalseLower |-> Str(sFalseLC),
   YesSpaced |-> Str(<<" ", "Y", "e", "s">>), NoSpaced |-> Str(<<"n", "o", " ">>),
   Maybe |-> Str(<<"m", "a", "y", "b", "e">>), Empty |-> Str(<<>>),
   BoolTrue |-> Bool(TRUE), BoolFalse |-> Bool(FALSE)]

AnswerTexts == {AnswerText[k] : k \in DOMAIN AnswerText}

AnswerRoutes(itype) ==
  LET U == Undefined IN
  IF itype = Str(sBool)
  THEN { Route(sEligible, Bool(TRUE), Str(sL1Q2), U, U, Str(sPhraseA), SetGift, NoGuard),
         Route(sEligible, Bool(FALSE), Str(sFAIL), U, Str(sNOT_OK), U, EmptyObj, NoGuard) }
  ELSE { Route(sEligible, AnswerText.Yes, Str(sL1Q2), U, U, Str(sPhraseA), SetGift, NoGuard),
         Route(sEligible, AnswerText.YesLower, Str(sEND), U, U, U, EmptyObj, NoGuard),
         Route(sEligible, AnswerText.No, Str(sFAIL), U, Str(sNOT_OK), U, EmptyObj, NoGuard) }

InitAnswer ==
  /\ call = NoCall
  /\ levelId = 1
  /\ maxQ = 1
  /\ healthState = Undefined
  /\ \E itype \in {Str(sBool), Str(sOptions3)}, fb \in {Null, Str(sFAIL)} :
       \E rs \in SeqsUpTo(AnswerRoutes(itype), MaxRoutes) :
         levelRules = [entry_node |-> Str(sL1Q1),
                       nodes |-> << [id |-> Str(sL1Q1), field |-> Str(sEligible),
                                     input_type |-> itype, routes |-> rs,
                                     fallback_node |-> fb] >>,
                       fallback_node |-> Null]
  /\ \E a \in AnswerTexts, vs \in StepVars :
       step = [pc |-> "call", nodeId |-> Str(sL1Q1), uiAnswer |-> a, vars |-> vs,
               res |-> OkOnly, scan |-> NoScan,
               mem |-> MemAtCall(levelRules, Str(sL1Q1), vs)]
  /\ rp = IdleReplay
  /\ first = NoFirst
  /\ WizardMounted

SpecAnswer == InitAnswer /\ [][NextStep]_allVars

\* The call recorded the answer as true for the texts of T and as false for
\* those of F when the node is a bool node, and unchanged otherwise, and
\* compared the routes with that value.
RecordedAs(T, F) ==
  LET a == step.uiAnswer
      isBool == StepNode.input_type = Str(sBool)
      recorded == IF isBool /\ a \in T THEN Bool(TRUE)
                  ELSE IF isBool /\ a \in F THEN Bool(FALSE)
                  ELSE a
      withAnswer == Assign(step.vars, [k \in {sEligible} |-> recorded])
      matching == {i \in 1..Len(StepRoutesOf) :
                     ToStringJS(StepRoutesOf[i].when.value) = ToStringJS(recorded)}
  IN /\ step.res.hasVars
     /\ Get(step.res.vars, sEligible) = recorded
     /\ step.scan.taken = IF matching = {} THEN 0 ELSE Least(matching)

\* C15 as stated: a bool node records "yes" and "true" as true and "no" and
\* "false" as false, whatever the letter case; any other answer, and every
\* answer to another node, is recorded unchanged.
C15_BoolTextsAsStated ==
  StepReturned
    => RecordedAs({AnswerText.Yes, AnswerText.YesLower, AnswerText.TrueUpper, AnswerText.TrueLower},
                  {AnswerText.No, AnswerText.NoMixed, AnswerText.FalseCap, AnswerText.FalseLower})

\* C15 (amended): as stated, and the texts are also recognised with white
\* space before or after them.
C15_BoolTextsTrimmed ==
  StepReturned
    => RecordedAs({AnswerText.Yes, AnswerText.YesLower, AnswerText.TrueUpper, AnswerText.TrueLower, AnswerText.YesSpaced},
                  {AnswerText.No, AnswerText.NoMixed, AnswerText.FalseCap, AnswerText.FalseLower, AnswerText.NoSpaced})

\* "TRUE" answered to a bool node: recorded as true and the route on true taken.
C15_Witness ==
  /\ StepReturned
  /\ StepNode.input_type = Str(sBool)
  /\ step.uiAnswer = AnswerText.TrueUpper
  /\ Get(step.res.vars, sEligible) = Bool(TRUE)
  /\ step.scan.taken # 0
  /\ step.res.nextNode = Str(sL1Q2)

----------------------------------------------------------------------------
(* loadLogic: the rows of the logic sheet folded into one graph per level. *)
(* A row is a record of its cells by column name, each a text, empty when  *)
(* the cell is empty or the column is missing.                             *)

sOptions == <<"o", "p", "t", "i", "o", "n", "s">>

\* s.split(c)
RECURSIVE SplitOn(_, _)
SplitOn(cs, c) ==
  LET p == IndexOfChar(cs, c) IN
  IF p = 0 THEN <<cs>>
  ELSE <<SubSeq(cs, 1, p - 1)>> \o SplitOn(SubSeq(cs, p + 1, Len(cs)), c)

\* The loop of parseSetVars over the pairs, from the object out.
RECURSIVE parseSetVarsFrom(_, _)
parseSetVarsFrom(pairs, out) ==
  IF pairs = <<>> THEN out
  ELSE LET pair == Head(pairs)
           parts == SplitOn(pair, "=")
           k == Trim(parts[1])
           vRaw == IF Len(parts) >= 2 THEN Str(Trim(parts[2])) ELSE Undefined
           num == ToNumberJS(vRaw)
           v == IF vRaw = Str(sTrueLC) THEN Bool(TRUE)
                ELSE IF vRaw = Str(sFalseLC) THEN Bool(FALSE)
                ELSE IF vRaw # Str(<<>>) /\ num.t # "nan" THEN num
                ELSE vRaw
       IN IF Trim(pair) = <<>> \/ k = <<>> THEN parseSetVarsFrom(Tail(pairs), out)
          ELSE parseSetVarsFrom(Tail(pairs), Assign(out, [x \in {k} |-> v]))

parseSetVars(s) ==
  IF s = <<>> THEN EmptyObj ELSE parseSetVarsFrom(SplitOn(s, ";"), EmptyObj)

\* The route built from a row of node `node`.
RowRoute_ReasonAlways(row, node) ==
  LET field == IF row.field = <<>> THEN row.qId ELSE row.field
      labelOrValue == IF row.option_value # <<>> THEN row.option_value ELSE row.option_label
      stableValue == IF node.input_type = Str(sBool)
                     THEN Bool(ToLowerCase(row.option_value) = sTrueLC)
                     ELSE Str(labelOrValue)
      failing == row.fail_reason # <<>>
  IN [when |-> [op |-> Str(sEq), field |-> Str(field), value |-> stableValue],
      goto_node |-> IF failing THEN Str(sFAIL)
                    ELSE IF row.next = <<>> THEN Undefined ELSE Str(row.next),
      reset_to |-> Undefined,
      reason |-> IF failing THEN Str(row.fail_reason) ELSE Undefined,
      print |-> IF row.phrase # <<>> THEN Str(row.phrase) ELSE Undefined,
      set |-> parseSetVars(row.set_vars),
      guard |-> IF row.guard_if_var # <<>> /\ row.guard_op # <<>>
                THEN [present |-> TRUE, field |-> Str(row.guard_if_var),
                      op |-> Str(row.guard_op), value |-> Str(row.guard_value),
                      next |-> Str(row.guard_next), reason |-> Str(row.guard_reason)]
                ELSE NoGuard,
      optLabel |-> Str(row.option_label),
      optValue |-> Str(labelOrValue)]

RowRoute(row, node) ==
  LET field == IF row.field = <<>> THEN row.qId ELSE row.field
      labelOrValue == IF row.option_value # <<>> THEN row.option_value ELSE row.option_label
      stableValue == IF node.input_type = Str(sBool)
                     THEN Bool(ToLowerCase(row.option_value) = sTrueLC)
                     ELSE Str(labelOrValue)
      failing == row.fail_reason # <<>> /\ (row.next = <<>> \/ row.next = sFAIL)
  IN [when |-> [op |-> Str(sEq), field |-> Str(field), value |-> stableValue],
      goto_node |-> IF failing THEN Str(sFAIL)
                    ELSE IF row.next = <<>> THEN Undefined ELSE Str(row.next),
      reset_to |-> Undefined,
      reason |-> IF failing THEN Str(row.fail_reason) ELSE Undefined,
      print |-> IF row.phrase # <<>> THEN Str(row.phrase) ELSE Undefined,
      set |-> parseSetVars(row.set_vars),
      guard |-> IF row.guard_if_var # <<>> /\ row.guard_op # <<>>
                THEN [present |-> TRUE, field |-> Str(row.guard_if_var),
                      op |-> Str(row.guard_op), value |-> Str(row.guard_value),
                      next |-> Str(row.guard_next), reason |-> Str(row.guard_reason)]
                ELSE NoGuard,
      optLabel |-> Str(row.option_label),
      optValue |-> Str(labelOrValue)]

\* The node of a row, with the row's route and fallback added.
RowNode_RouteInFront(row, node) ==
  [node EXCEPT !.routes = <<RowRoute(row, node)>> \o @,
               !.fallback_node = IF row.fallback # <<>> /\ ~Truthy(@)
                                 THEN Str(row.fallback) ELSE @]

RowNode(row, node) ==
  [node EXCEPT !.routes = Append(@, RowRoute(row, node)),
               !.fallback_node = IF row.fallback # <<>> /\ ~Truthy(@)
                                 THEN Str(row.fallback) ELSE @]

\* One pass through the loop over the rows.
AddRow(byLevel, row) ==
  IF row.level = <<>> \/ row.qId = <<>> THEN byLevel
  ELSE LET itype == IF row.input_type = <<>> THEN sBool ELSE row.input_type
           field == IF row.field = <<>> THEN row.qId ELSE row.field
           lvl == IF row.level \in DOMAIN byLevel THEN byLevel[row.level]
                  ELSE [entry_node |-> Null, nodes |-> <<>>, fallback_node |-> Null]
           at == FindNode(lvl.nodes, Str(row.qId))
           created == [id |-> Str(row.qId), field |-> Str(field),
                       input_type |-> Str(IF itype \in {sOptions, sOptions3}
                                          THEN sOptions3 ELSE itype),
                       routes |-> <<>>, fallback_node |-> Null]
           nodes1 == IF at = 0 THEN Append(lvl.nodes, created) ELSE lvl.nodes
           i == IF at = 0 THEN Len(nodes1) ELSE at
           entry == IF at = 0 /\ ~Truthy(lvl.entry_node) THEN Str(row.qId)
                    ELSE lvl.entry_node
       IN Assign(byLevel,
                 [x \in {row.level} |->
                    [lvl EXCEPT !.entry_node = entry,
                                !.nodes = [nodes1 EXCEPT ![i] = RowNode(row, nodes1[i])]]])

RECURSIVE LoadRows(_, _)
LoadRows(data, byLevel) ==
  IF data = <<>> THEN byLevel ELSE LoadRows(Tail(data), AddRow(byLevel, Head(data)))

loadLogic(data) == LoadRows(data, EmptyObj)

----------------------------------------------------------------------------
(* SpecSheet: replayLevel over the level 1 graph compiled from a sheet of  *)
(* up to MaxRows rows.                                                     *)

sSetGiftAndCount == <<"G", "I", "F", "T", "=", "t", "r", "u", "e", ";", " ", "n", " ", "=", " ", "5">>

BlankRow ==
  [level |-> <<>>, qId |-> <<>>, input_type |-> <<>>, field |-> <<>>,
   option_label |-> <<>>, option_value |-> <<>>, next |-> <<>>, fail_reason |-> <<>>,
   set_vars |-> <<>>, phrase |-> <<>>, guard_if_var |-> <<>>, guard_op |-> <<>>,
   guard_value |-> <<>>, guard_next |-> <<>>, guard_reason |-> <<>>, fallback |-> <<>>]

\* The rows of the sheets: the gate of L1Q1 (true goes on to L1Q2, with a
\* fail reason and the fallback FAIL in the same row), the refusal of L1Q1,
\* the two options of L1Q2 (one ends the level, one is guarded), a row
\* without a level and a row of level 2.
SheetRows ==
  { [BlankRow EXCEPT !.level = <<"1">>, !.qId = sL1Q1, !.input_type = sBool,
                     !.field = sEligible, !.option_label = sYes,
                     !.option_value = sTrueLC, !.next = sL1Q2,
                     !.fail_reason = sNOT_OK, !.fallback = sFAIL],
    [BlankRow EXCEPT !.level = <<"1">>, !.qId = sL1Q1, !.input_type = sBool,
                     !.field = sEligible, !.option_label = sNo,
                     !.option_value = sFalseLC, !.fail_reason = sNOT_OK],
    [BlankRow EXCEPT !.level = <<"1">>, !.qId = sL1Q2,
                     !.option_value = <<"T", "R", "U", "E">>, !.next = sEND,
                     !.set_vars = sSetGiftAndCount, !.phrase = sPhraseA],
    [BlankRow EXCEPT !.level = <<"1">>, !.qId = sL1Q2, !.input_type = sBool,
                     !.option_label = sNo, !.next = sL1Q1,
                     !.guard_if_var = sGIFT, !.guard_op = sEq,
                     !.guard_value = sTrueLC, !.guard_next = sFAIL,
                     !.guard_reason = sTOO_YOUNG, !.fallback = sL1Q3],
    [BlankRow EXCEPT !.qId = sL1Q1, !.next = sEND],
    [BlankRow EXCEPT !.level = <<"2">>, !.qId = sL1Q1, !.input_type = sOptions,
                     !.option_label = sYes, !.next = sEND] }

\* The sheets whose level 1 has a node: the others make the wizard throw.
Sheets ==
  {data \in SeqsUpTo(SheetRows, MaxRows) : <<"1">> \in DOMAIN loadLogic(data)}

InitSheet ==
  /\ call = NoCall
  /\ levelId = 1
  /\ maxQ = MaxQuestions
  /\ healthState = Undefined
  /\ \E data \in Sheets : levelRules = loadLogic(data)[ToStringJS(Num(levelId))]
  /\ step = IdleStep
  /\ rp = IdleReplay
  /\ first = NoFirst
  /\ WizardMounted

SpecSheet == InitSheet /\ [][NextReplay]_allVars

\* The graph holds the bool gate: L1Q1 on field eligible with the one route
\* eligible == true -> L1Q2 and the fallback FAIL.
HoldsBoolGate ==
  LET k == FindNode(levelRules.nodes, Str(sL1Q1)) IN
  /\ k # 0
  /\ levelRules.nodes[k].input_type = Str(sBool)
  /\ levelRules.nodes[k].field = Str(sEligible)
  /\ Len(levelRules.nodes[k].routes) = 1
  /\ levelRules.nodes[k].routes[1].when.field = Str(sEligible)
  /\ levelRules.nodes[k].routes[1].when.value = Bool(TRUE)
  /\ levelRules.nodes[k].routes[1].goto_node = Str(sL1Q2)
  /\ ~levelRules.nodes[k].routes[1].guard.present
  /\ levelRules.nodes[k].fallback_node = Str(sFAIL)

GateRefused == ReplayDone /\ HoldsBoolGate /\ Get(rp.answersMap, 0) = Str(sNo)

\* C12 as stated: on the bool gate a replay whose answer at index 0 is "No"
\* returns stop = {qIndex: 0, reason: "NOT_OK"}.
C12_GateStopsNotOk ==
  GateRefused => rp.result.stop = StopAt(0, Str(sNOT_OK))

\* C12 (amended): on the bool gate a replay whose answer at index 0 is "No"
\* returns stop = {qIndex: 0, reason: "L"}, the generic reason of a fallback.
C12_GateStopsGeneric ==
  GateRefused => rp.result.stop = StopAt(0, Str(sL))

\* The gate compiled from the one row that names both a fail reason and the
\* fallback FAIL, refused with "No".
C12_Witness ==
  /\ GateRefused
  /\ Len(levelRules.nodes) = 1
  /\ rp.result.path = <<0>>
  /\ rp.result.stop = StopAt(0, Str(sL))

\* C20: the first node replayLevel evaluates is the node the compiler
\* recorded as the entry node of the level.
C20_StartsAtEntryNode ==
  (Answered /\ rp.loc.path = <<>>)
    => /\ nodeIdFor(levelId, rp.loc.qIdx.n) = levelRules.entry_node
       /\ FindNode(levelRules.nodes, levelRules.entry_node) # 0

----------------------------------------------------------------------------
(* Calls of the pure functions.  While one is called the engine and the    *)
(* wizard are idle.                                                        *)

EngineIdle ==
  /\ levelId = 1
  /\ maxQ = 0
  /\ healthState = Undefined
  /\ levelRules = NoRules
  /\ step = IdleStep
  /\ rp = IdleReplay
  /\ first = NoFirst
  /\ WizardMounted

engineVars == <<levelRules, levelId, maxQ, healthState, step, rp, first>>

CallDone(fn) == call.fn = fn /\ call.pc = "done"

----------------------------------------------------------------------------
(* SpecCompare: opCompare on every operator and pair of operands.          *)

CompareOps ==
  {Str(sEq), Str(sNe), Str(sLt), Str(sLe), Str(sGt), Str(sGe), Str(<<"=">>),
   Str(<<"=", "=", "=">>)}

CompareValues ==
  {Undefined, Null, Bool(TRUE), Bool(FALSE), Num(0), Num(18), Num(0 - 3),
   Str(s18), Str(<<"1", "5">>), Str(<<" ", "1", "8">>), Str(<<"-", "3">>), Str(<<>>),
   Str(sTrueLC), Str(sFalseLC), Str(<<"a", "b", "c">>), Str(<<"n", "u", "l", "l">>)}

InitCompare ==
  /\ \E op \in CompareOps, a \in CompareValues, b \in CompareValues :
       call = [fn |-> "opCompare", pc |-> "call", op |-> op, a |-> a, b |-> b,
               result |-> FALSE]
  /\ EngineIdle

CompareCall ==
  /\ call.fn = "opCompare" /\ call.pc = "call"
  /\ call' = [call EXCEPT !.pc = "done", !.result = opCompare(call.op, call.a, call.b)]
  /\ UNCHANGED engineVars
  /\ UNCHANGED wizardVars

SpecCompare == InitCompare /\ [][CompareCall]_allVars

\* The string form of each operand of CompareValues, written out.
StringForm(v) ==
  CASE v = Undefined -> <<"u", "n", "d", "e", "f", "i", "n", "e", "d">>
    [] v = Null -> <<"n", "u", "l", "l">>
    [] v = Bool(TRUE) -> <<"t", "r", "u", "e">>
    [] v = Bool(FALSE) -> <<"f", "a", "l", "s", "e">>
    [] v = Num(0) -> <<"0">>
    [] v = Num(18) -> <<"1", "8">>
    [] v = Num(0 - 3) -> <<"-", "3">>
    [] OTHER -> v.s

\* The numeric operands of CompareValues (numbers and texts of numbers) and
\* their values.
NumericOperands ==
  {Num(0), Num(18), Num(0 - 3), Str(s18), Str(<<"1", "5">>), Str(<<" ", "1", "8">>),
   Str(<<"-", "3">>)}

NumberOf(v) ==
  CASE v \in {Num(18), Str(s18), Str(<<" ", "1", "8">>)} -> 18
    [] v = Str(<<"1", "5">>) -> 15
    [] v \in {Num(0 - 3), Str(<<"-", "3">>)} -> 0 - 3
    [] v = Bool(TRUE) -> 1
    [] OTHER -> 0

\* The operands that count as a number though they are not numeric: null,
\* the booleans and the empty text.
CoercedOperands == {Null, Bool(TRUE), Bool(FALSE), Str(<<>>)}

Ordered(op, x, y) ==
  CASE op = Str(sLt) -> x < y
    [] op = Str(sLe) -> x <= y
    [] op = Str(sGt) -> x > y
    [] op = Str(sGe) -> x >= y
    [] OTHER -> FALSE

\* The result opCompare is to return when the operands of N compare as
\* numbers and every other operand makes an ordering false.
CompareExpected(N) ==
  LET op == call.op
      a == call.a
      b == call.b
  IN CASE op = Str(sEq) -> StringForm(a) = StringForm(b)
       [] op = Str(sNe) -> StringForm(a) # StringForm(b)
       [] op \in {Str(sLt), Str(sLe), Str(sGt), Str(sGe)} ->
            a \in N /\ b \in N /\ Ordered(op, NumberOf(a), NumberOf(b))
       [] OTHER -> FALSE

\* C22 as stated: "==" and "!=" compare the string forms, the orderings
\* compare numbers and are false whenever an operand is not numeric, any
\* other operator yields false.
C22_CompareAsStated ==
  CallDone("opCompare") => call.result = CompareExpected(NumericOperands)

\* C22 (amended): as stated, but in the orderings null, false and an empty
\* text count as 0 and true as 1; an ordering is false whenever an operand
\* is undefined or a text that is not a number.
C22_CompareCoerced ==
  CallDone("opCompare")
    => call.result = CompareExpected(NumericOperands \cup CoercedOperands)

\* Boolean true equals the text "true".
C22_Witness ==
  /\ CallDone("opCompare")
  /\ call.op = Str(sEq) /\ call.a = Bool(TRUE) /\ call.b = Str(sTrueLC)
  /\ call.result = TRUE

----------------------------------------------------------------------------
(* parseCSV.  A text is a sequence of characters, a row a sequence of      *)
(* cells, a cell a sequence of characters.                                 *)

NormalizeEOL_Unchanged(text) == text

\* text.replace(/\r?\n/g, "\n")
RECURSIVE NormalizeEOL(_)
NormalizeEOL(text) ==
  IF text = <<>> THEN <<>>
  ELSE IF Len(text) >= 2 /\ text[1] = "\r" /\ text[2] = "\n"
  THEN <<"\n">> \o NormalizeEOL(SubSeq(text, 3, Len(text)))
  ELSE <<Head(text)>> \o NormalizeEOL(Tail(text))

\* The for loop from position i (1-based) with the locals rows, cur, field
\* and inQuotes, then the last pushField and pushRow: the rows scanned.
RECURSIVE ScanCSV_NoEscape(_, _, _, _, _, _)
ScanCSV_NoEscape(text, i, rows, cur, field, inQuotes) ==
  IF i > Len(text)
  THEN LET last == Append(cur, field) IN
       IF Len(last) > 0 THEN Append(rows, last) ELSE rows
  ELSE LET ch == text[i] IN
       IF inQuotes
       THEN IF ch = "\""
            THEN ScanCSV_NoEscape(text, i + 1, rows, cur, field, FALSE)
            ELSE ScanCSV_NoEscape(text, i + 1, rows, cur, Append(field, ch), TRUE)
       ELSE IF ch = "\"" THEN ScanCSV_NoEscape(text, i + 1, rows, cur, field, TRUE)
       ELSE IF ch = "," THEN ScanCSV_NoEscape(text, i + 1, rows, Append(cur, field), <<>>, FALSE)
       ELSE IF ch = "\n"
       THEN ScanCSV_NoEscape(text, i + 1, Append(rows, Append(cur, field)), <<>>, <<>>, FALSE)
       ELSE ScanCSV_NoEscape(text, i + 1, rows, cur, Append(field, ch), FALSE)

RECURSIVE ScanCSV_KeepsQuotes(_, _, _, _, _, _)
ScanCSV_KeepsQuotes(text, i, rows, cur, field, inQuotes) ==
  IF i > Len(text)
  THEN LET last == Append(cur, field) IN
       IF Len(last) > 0 THEN Append(rows, last) ELSE rows
  ELSE LET ch == text[i] IN
       IF inQuotes
       THEN IF ch = "\""
            THEN IF i + 1 <= Len(text) /\ text[i + 1] = "\""
                 THEN ScanCSV_KeepsQuotes(text, i + 2, rows, cur, Append(field, "\""), TRUE)
                 ELSE ScanCSV_KeepsQuotes(text, i + 1, rows, cur, field, FALSE)
            ELSE ScanCSV_KeepsQuotes(text, i + 1, rows, cur, Append(field, ch), TRUE)
       ELSE IF ch = "\""
       THEN ScanCSV_KeepsQuotes(text, i + 1, rows, cur, Append(field, ch), TRUE)
       ELSE IF ch = "," THEN ScanCSV_KeepsQuotes(text, i + 1, rows, Append(cur, field), <<>>, FALSE)
       ELSE IF ch = "\n"
       THEN ScanCSV_KeepsQuotes(text, i + 1, Append(rows, Append(cur, field)), <<>>, <<>>, FALSE)
       ELSE ScanCSV_KeepsQuotes(text, i + 1, rows, cur, Append(field, ch), FALSE)

RECURSIVE ScanCSV_RejectsOpenQuote(_, _, _, _, _, _)
ScanCSV_RejectsOpenQuote(text, i, rows, cur, field, inQuotes) ==
  IF i > Len(text)
  THEN LET last == IF inQuotes THEN cur ELSE Append(cur, field) IN
       IF Len(last) > 0 THEN Append(rows, last) ELSE rows
  ELSE LET ch == text[i] IN
       IF inQuotes
       THEN IF ch = "\""
            THEN IF i + 1 <= Len(text) /\ text[i + 1] = "\""
                 THEN ScanCSV_RejectsOpenQuote(text, i + 2, rows, cur, Append(field, "\""), TRUE)
                 ELSE ScanCSV_RejectsOpenQuote(text, i + 1, rows, cur, field, FALSE)
            ELSE ScanCSV_RejectsOpenQuote(text, i + 1, rows, cur, Append(field, ch), TRUE)
       ELSE IF ch = "\"" THEN ScanCSV_RejectsOpenQuote(text, i + 1, rows, cur, field, TRUE)
       ELSE IF ch = ","
       THEN ScanCSV_RejectsOpenQuote(text, i + 1, rows, Append(cur, field), <<>>, FALSE)
       ELSE IF ch = "\n"
       THEN ScanCSV_RejectsOpenQuote(text, i + 1, Append(rows, Append(cur, field)), <<>>, <<>>,
                                     FALSE)
       ELSE ScanCSV_RejectsOpenQuote(text, i + 1, rows, cur, Append(field, ch), FALSE)

RECURSIVE ScanCSV(_, _, _, _, _, _)
ScanCSV(text, i, rows, cur, field, inQuotes) ==
  IF i > Len(text)
  THEN LET last == Append(cur, field) IN
       IF Len(last) > 0 THEN Append(rows, last) ELSE rows
  ELSE LET ch == text[i] IN
       IF inQuotes
       THEN IF ch = "\""
            THEN IF i + 1 <= Len(text) /\ text[i + 1] = "\""
                 THEN ScanCSV(text, i + 2, rows, cur, Append(field, "\""), TRUE)
                 ELSE ScanCSV(text, i + 1, rows, cur, field, FALSE)
            ELSE ScanCSV(text, i + 1, rows, cur, Append(field, ch), TRUE)
       ELSE IF ch = "\"" THEN ScanCSV(text, i + 1, rows, cur, field, TRUE)
       ELSE IF ch = "," THEN ScanCSV(text, i + 1, rows, Append(cur, field), <<>>, FALSE)
       ELSE IF ch = "\n"
       THEN ScanCSV(text, i + 1, Append(rows, Append(cur, field)), <<>>, <<>>, FALSE)
       ELSE ScanCSV(text, i + 1, rows, cur, Append(field, ch), FALSE)

\* The rows after the loop, of the text as given to parseCSV.
ScannedRows(text) ==
  LET noBom == IF text # <<>> /\ text[1] = cBOM THEN Tail(text) ELSE text
  IN ScanCSV(NormalizeEOL(noBom), 1, <<>>, <<>>, <<>>, FALSE)

TrimRow(r) == [j \in 1..Len(r) |-> Trim(r[j])]
SomeCellFilled(r) == \E j \in 1..Len(r) : r[j] # <<>>

\* rows.map(r => r.map(c => c.trim())).filter(r => r.some(c => c !== ""))
TrimAndDrop(rows) ==
  SelectSeq([k \in 1..Len(rows) |-> TrimRow(rows[k])], SomeCellFilled)

\* headerLC.indexOf(String(name).toLowerCase())
idx_CaseSensitive(header, name) ==
  LET hits == {j \in 1..Len(header) : header[j] = ToStringJS(name)}
  IN IF hits = {} THEN 0 - 1
     ELSE (CHOOSE j \in hits : \A k \in hits : j <= k) - 1

idx(header, name) ==
  LET lc == ToLowerCase(ToStringJS(name))
      hits == {j \in 1..Len(header) : ToLowerCase(header[j]) = lc}
  IN IF hits = {} THEN 0 - 1
     ELSE (CHOOSE j \in hits : \A k \in hits : j <= k) - 1

\* What parseCSV returns, with idx tabulated over the given names; rows is
\* the local of that name after the loop.
parseCSV(text, names) ==
  LET rows == ScannedRows(text)
      trimmed == TrimAndDrop(rows)
      rawHeader == IF trimmed = <<>> THEN <<>> ELSE Head(trimmed)
      header == [j \in 1..Len(rawHeader) |->
                   IF j = 1 /\ rawHeader[j] # <<>> /\ rawHeader[j][1] = cBOM
                   THEN Tail(rawHeader[j]) ELSE rawHeader[j]]
  IN [rows |-> rows, header |-> header,
      data |-> IF trimmed = <<>> THEN <<>> ELSE Tail(trimmed),
      idx |-> [n \in names |-> idx(header, n)]]

----------------------------------------------------------------------------
(* SpecCSV: parseCSV on the texts of small tables, written with or without *)
(* quotes around every cell, a byte-order mark and CRLF row ends, and on   *)
(* the two texts of devCsvTests; then on its own result written back.      *)

\* A cell as a quoted field: quotes doubled, wrapped in quotes.
RECURSIVE DoubleQuotes(_)
DoubleQuotes(c) ==
  IF c = <<>> THEN <<>>
  ELSE (IF Head(c) = "\"" THEN <<"\"", "\"">> ELSE <<Head(c)>>) \o DoubleQuotes(Tail(c))

QuotedField(c) == <<"\"">> \o DoubleQuotes(c) \o <<"\"">>

NeedsQuotes(c) == \E j \in 1..Len(c) : c[j] \in {",", "\"", "\n"}

\* The fields of the items joined by the separator.
RECURSIVE Joined(_, _)
Joined(items, sep) ==
  IF items = <<>> THEN <<>>
  ELSE IF Len(items) = 1 THEN items[1]
  ELSE items[1] \o sep \o Joined(Tail(items), sep)

RowText(r, quoteAll) ==
  Joined([j \in 1..Len(r) |-> IF quoteAll \/ NeedsQuotes(r[j]) THEN QuotedField(r[j])
                                ELSE r[j]], <<",">>)

TableText(table, style) ==
  (IF style.bom THEN <<cBOM>> ELSE <<>>)
    \o Joined([k \in 1..Len(table) |-> RowText(table[k], style.quoteAll)],
              IF style.crlf THEN <<"\r", "\n">> ELSE <<"\n">>)

\* The cells of the tables: empty, a name in mixed case, a cell with blanks
\* around it, a cell with a comma and a line break, a cell with a quote.
TableCells ==
  {<<>>, <<"A", "b">>, <<" ", "c", " ">>, <<"x", ",", "y", "\n", "z">>, <<"q", "\"", "w">>}

TableRows == {<<c>> : c \in {<<>>, <<"A", "b">>}} \cup {<<c, d>> : c, d \in TableCells}

Tables == SeqsUpTo(TableRows, MaxLines) \ {<<>>}

TextStyles ==
  {[quoteAll |-> FALSE, bom |-> FALSE, crlf |-> FALSE],
   [quoteAll |-> TRUE, bom |-> FALSE, crlf |-> FALSE],
   [quoteAll |-> FALSE, bom |-> TRUE, crlf |-> TRUE],
   [quoteAll |-> TRUE, bom |-> TRUE, crlf |-> TRUE]}

\* const sample and const quoted of devCsvTests
DevSample ==
  <<cBOM, "L", "e", "v", "e", "l", ",", "q", "I", "d", ",", "q", "u", "e", "s", "t",
  "i", "o", "n", "_", "t", "e", "x", "t", "\r", "\n", "1", ",", "L", "1", "Q", "1", ",",
  "H", "e", "l", "l", "o", "\n">>
DevQuoted ==
  <<"a", ",", "b", ",", "c", "\n", "\"", "x", ",", " ", "y", "\"", ",", "\"", "z", "\"",
  "\"", "w", "\"", "\n">>

LookupNames ==
  {Str(<<"a", "b">>), Str(<<"A", "B">>), Str(<<"z", "z">>), Str(<<"l", "e", "v", "e", "l">>),
   Str(<<"q", "I", "d">>),
   Str(<<"q", "u", "e", "s", "t", "i", "o", "n", "_", "t", "e", "x", "t">>)}

NoParse == [rows |-> <<>>, header |-> <<>>, data |-> <<>>, idx |-> <<>>]

CsvCallOf(text, fromTable, table, style) ==
  [fn |-> "parseCSV", pc |-> "call", text |-> text, fromTable |-> fromTable,
   table |-> table, style |-> style, result |-> NoParse, again |-> NoParse]

InitCSV ==
  /\ \/ \E t \in Tables, st \in TextStyles : call = CsvCallOf(TableText(t, st), TRUE, t, st)
     \/ \E text \in {DevSample, DevQuoted} :
          call = CsvCallOf(text, FALSE, <<>>, [quoteAll |-> FALSE, bom |-> FALSE, crlf |-> FALSE])
  /\ EngineIdle

\* parseCSV(text)
CsvParse ==
  /\ call.fn = "parseCSV" /\ call.pc = "call"
  /\ call' = [call EXCEPT !.pc = "done", !.result = parseCSV(call.text, LookupNames)]
  /\ UNCHANGED engineVars
  /\ UNCHANGED wizardVars

\* parseCSV on the header and the rows of the result, written with every
\* cell quoted.
CsvReparse ==
  /\ call.fn = "parseCSV" /\ call.pc = "done"
  /\ call' = [call EXCEPT
                !.pc = "again",
                !.again = parseCSV(TableText(<<call.result.header>> \o call.result.data,
                                             [quoteAll |-> TRUE, bom |-> FALSE, crlf |-> FALSE]),
                                   LookupNames)]
  /\ UNCHANGED engineVars
  /\ UNCHANGED wizardVars

NextCSV == CsvParse \/ CsvReparse

SpecCSV == InitCSV /\ [][NextCSV]_allVars

CsvParsed == call.fn = "parseCSV" /\ call.pc \in {"done", "again"}

\* C24: the rows scanned from a text are the rows of the table it writes:
\* a doubled quote inside a quoted field is one quote, commas and line breaks
\* inside quotes are content, outside quotes a comma ends a field and a line
\* break ends a row.
C24_QuotedFields ==
  (CsvParsed /\ call.fromTable) => call.result.rows = call.table

\* Two rows, the second with a comma and a line break in one quoted field
\* and a quote in the other, scanned as written.
C24_Witness ==
  /\ CsvParsed /\ call.fromTable
  /\ Len(call.table) = 2
  /\ call.table[2] = << <<"x", ",", "y", "\n", "z">>, <<"q", "\"", "w">> >>
  /\ call.result.rows = call.table

\* C25: the header and the rows parsed from a text, written back with every
\* cell quoted and quotes doubled and parsed again, give the same header and
\* the same rows.
C25_RoundTrip ==
  (call.fn = "parseCSV" /\ call.pc = "again")
    => /\ call.again.header = call.result.header
       /\ call.again.data = call.result.data

\* A round trip of a header and a row with a comma, a line break and a quote.
C25_Witness ==
  /\ call.fn = "parseCSV" /\ call.pc = "again"
  /\ call.result.header # <<>>
  /\ call.result.data = << << <<"x", ",", "y", "\n", "z">>, <<"q", "\"", "w">> >> >>
  /\ call.again.data = call.result.data

\* C26: parsing the quoted text of devCsvTests returns data with 2 rows.
C26_DevQuotedTwoRows ==
  (CsvParsed /\ call.text = DevQuoted) => Len(call.result.data) = 2

\* The cells of the tables without the blanks around them.
TrimmedCell(c) == IF c = <<" ", "c", " ">> THEN <<"c">> ELSE c

NotAllEmpty(r) == \E j \in 1..Len(r) : r[j] # <<>>

\* The rows of a table with every cell trimmed and the empty rows left out.
KeptRows(table) ==
  SelectSeq([k \in 1..Len(table) |-> [j \in 1..Len(table[k]) |-> TrimmedCell(table[k][j])]],
            NotAllEmpty)

\* A header cell and a name that differ in letter case at most.
SameName(cell, name) ==
  \/ cell = name.s
  \/ cell = <<"A", "b">> /\ name.s \in {<<"a", "b">>, <<"A", "B">>}
  \/ cell = <<"L", "e", "v", "e", "l">> /\ name.s = <<"l", "e", "v", "e", "l">>

\* idx gives every name its first position in the header, counted from 0,
\* whatever the letter case, and -1 to a name that is not there.
IdxAsExpected(header, found) ==
  \A n \in LookupNames :
    LET hits == {j \in 1..Len(header) : SameName(header[j], n)} IN
    IF hits = {} THEN found[n] = 0 - 1
    ELSE found[n] + 1 \in hits /\ \A k \in hits : found[n] + 1 <= k

\* C27: parseCSV strips a leading byte-order mark, trims every cell, drops
\* the rows whose cells are all empty, takes the first row left as header
\* and the others as data, and idx finds a column whatever the letter case
\* and gives -1 for a name that is not in the header; on the sample of
\* devCsvTests idx('level') = 0, idx('qId') = 1, idx('question_text') = 2.
C27_PostProcessing ==
  CsvParsed
    => LET res == call.result
           kept == KeptRows(call.table)
       IN /\ IdxAsExpected(res.header, res.idx)
          /\ call.fromTable
               => /\ res.header = IF kept = <<>> THEN <<>> ELSE Head(kept)
                  /\ res.data = IF kept = <<>> THEN <<>> ELSE Tail(kept)
          /\ call.text = DevSample
               => /\ res.header = << <<"L", "e", "v", "e", "l">>, <<"q", "I", "d">>,
                                     <<"q", "u", "e", "s", "t", "i", "o", "n", "_", "t", "e",
                                       "x", "t">> >>
                  /\ res.data = << << <<"1">>, sL1Q1, <<"H", "e", "l", "l", "o">> >> >>
                  /\ res.idx[Str(<<"l", "e", "v", "e", "l">>)] = 0
                  /\ res.idx[Str(<<"q", "I", "d">>)] = 1
                  /\ res.idx[Str(<<"z", "z">>)] = 0 - 1

\* A text with a byte-order mark whose first row is empty and whose second
\* row, with a cell to trim, is taken as header and found by idx.
C27_Witness ==
  /\ CsvParsed /\ call.fromTable /\ call.style.bom
  /\ call.table = << <<<<>>, <<>>>>, << <<"A", "b">>, <<" ", "c", " ">> >> >>
  /\ call.result.header = << <<"A", "b">>, <<"c">> >>
  /\ call.result.data = <<>>
  /\ call.result.idx[Str(<<"A", "B">>)] = 0

----------------------------------------------------------------------------
(* SpecRules: EligibilityApp renders the LevelWizard of a level with the   *)
(* rules getLevelRulesOrThrow returns for it; when it throws nothing is    *)
(* rendered.                                                               *)

\* One graph of one node and the two malformed rules objects.
OneNodeRules(id) ==
  [entry_node |-> Str(id), fallback_node |-> Null,
   nodes |-> << BoolNode(1, <<>>, Str(sFAIL)) >>]

RulesWithoutNodes == [entry_node |-> Null, fallback_node |-> Null]

\* What a level key can hold: "absent" stands for no entry.
LevelEntries == {"absent", "noNodes", "emptyNodes", "oneNode"}

EntryRules(e) ==
  CASE e = "noNodes" -> RulesWithoutNodes
    [] e = "emptyNodes" -> NoRules
    [] OTHER -> OneNodeRules(sL1Q1)

\* The logic objects: not loaded, every filling of the keys "1" and "2",
\* and every object loadLogic compiles from a sheet.
Logics ==
  {NoLogic}
    \cup {LogicOf([k \in {key \in {<<"1">>, <<"2">>} :
                              (IF key = <<"1">> THEN e1 ELSE e2) # "absent"} |->
                     EntryRules(IF k = <<"1">> THEN e1 ELSE e2)]) :
            e1 \in LevelEntries, e2 \in LevelEntries}
    \cup {LogicOf(loadLogic(data)) : data \in SeqsUpTo(SheetRows, MaxRows)}

InitRules ==
  /\ \E lid \in 1..3, logic \in Logics :
       call = [fn |-> "getLevelRulesOrThrow", pc |-> "call", levelId |-> lid,
               logic |-> logic, result |-> [threw |-> FALSE, rules |-> NoRules]]
  /\ EngineIdle

RulesCall ==
  /\ call.fn = "getLevelRulesOrThrow" /\ call.pc = "call"
  /\ call' = [call EXCEPT !.pc = "done",
                          !.result = getLevelRulesOrThrow(call.levelId, call.logic)]
  /\ UNCHANGED engineVars
  /\ UNCHANGED wizardVars

\* <LevelWizard levelId={levelId} levelRules={getLevelRulesOrThrow(levelId, logic)} />
WizardRendered ==
  /\ call.fn = "getLevelRulesOrThrow" /\ call.pc = "done"
  /\ ~call.result.threw
  /\ call' = [call EXCEPT !.pc = "rendered"]
  /\ levelRules' = call.result.rules
  /\ levelId' = call.levelId
  /\ UNCHANGED <<maxQ, healthState, step, rp, first>>
  /\ UNCHANGED wizardVars

NextRules == RulesCall \/ WizardRendered

SpecRules == InitRules /\ [][NextRules]_allVars

\* The level key of the levels asked for.
LevelKey(lid) == IF lid = 1 THEN <<"1">> ELSE IF lid = 2 THEN <<"2">> ELSE <<"3">>

\* C21: getLevelRulesOrThrow throws when the logic has no entry for the
\* level or the entry's node list is missing or empty, and otherwise returns
\* the entry unchanged; the LevelWizard is never rendered with a graph of
\* zero nodes.
C21_RulesOrThrow ==
  /\ (call.fn = "getLevelRulesOrThrow" /\ call.pc \in {"done", "rendered"})
       => LET key == LevelKey(call.levelId)
              byLevel == call.logic.byLevel
              served == /\ call.logic.loaded
                        /\ key \in DOMAIN byLevel
                        /\ byLevel[key] # RulesWithoutNodes
                        /\ byLevel[key].nodes # <<>>
          IN /\ call.result.threw = ~served
             /\ served => call.result.rules = byLevel[key]
  /\ call.pc = "rendered" => Len(levelRules.nodes) > 0

\* Level 2 has an entry with an empty node list and the call threw.
C21_Witness ==
  /\ call.fn = "getLevelRulesOrThrow" /\ call.pc = "done" /\ call.levelId = 2
  /\ <<"2">> \in DOMAIN call.logic.byLevel
  /\ call.logic.byLevel[<<"2">>] = NoRules
  /\ call.result.threw

\* The wizard of level 1 rendered with the graph compiled from a sheet.
RenderedFromSheet ==
  /\ call.fn = "getLevelRulesOrThrow" /\ call.pc = "rendered" /\ call.levelId = 1
  /\ Len(levelRules.nodes) = 2
  /\ levelRules = call.logic.byLevel[<<"1">>]

----------------------------------------------------------------------------
(* SpecCompile: loadLogic folding the rows of a sheet one by one.          *)

InitCompile ==
  /\ \E data \in SeqsUpTo(SheetRows, MaxRows) :
       call = [fn |-> "loadLogic", pc |-> "rows", data |-> data, i |-> 0,
               byLevel |-> EmptyObj]
  /\ EngineIdle

\* One pass through for (const row of data).
LoadRow ==
  /\ call.fn = "loadLogic" /\ call.pc = "rows"
  /\ call.i < Len(call.data)
  /\ call' = [call EXCEPT !.i = @ + 1, !.byLevel = AddRow(@, call.data[call.i + 1])]
  /\ UNCHANGED engineVars
  /\ UNCHANGED wizardVars

\* return byLevel
LoadReturn ==
  /\ call.fn = "loadLogic" /\ call.pc = "rows"
  /\ call.i = Len(call.data)
  /\ call' = [call EXCEPT !.pc = "done"]
  /\ UNCHANGED engineVars
  /\ UNCHANGED wizardVars

NextCompile == LoadRow \/ LoadReturn

SpecCompile == InitCompile /\ [][NextCompile]_allVars

\* The row about to be folded and the nodes of a level of a logic object.
FoldingRow == call.fn = "loadLogic" /\ call.pc = "rows" /\ call.i < Len(call.data)
NodesOf(byLevel, level) == IF level \in DOMAIN byLevel THEN byLevel[level].nodes ELSE <<>>
PositionOf(nodes, qId) == {k \in 1..Len(nodes) : nodes[k].id = Str(qId)}

\* The fold of one row: a row without level or qId changes nothing; the
\* first row of a (level, qId) creates the node at the end of the level's
\* nodes, and the first node of a level is its entry node; a later row of
\* the (level, qId) leaves the nodes in place and adds one route, that of the
\* row, at the end of the node's routes.  The fallback of an existing node
\* stays as it is (strict), or is set by the row when the node has none.
RowFolded(strict) ==
  LET row == call.data[call.i + 1]
      old == NodesOf(call.byLevel, row.level)
      new == NodesOf(call'.byLevel, row.level)
      at == PositionOf(old, row.qId)
  IN IF row.level = <<>> \/ row.qId = <<>> THEN call'.byLevel = call.byLevel
     ELSE /\ \A l \in DOMAIN call.byLevel : l # row.level
               => l \in DOMAIN call'.byLevel /\ call'.byLevel[l] = call.byLevel[l]
          /\ \A k \in 1..Len(new) : \A m \in 1..Len(new) : new[k].id = new[m].id => k = m
          /\ IF at = {}
             THEN /\ Len(new) = Len(old) + 1
                  /\ \A k \in 1..Len(old) : new[k] = old[k]
                  /\ new[Len(new)].id = Str(row.qId)
                  /\ Len(new[Len(new)].routes) = 1
                  /\ new[Len(new)].routes[1].optLabel = Str(row.option_label)
                  /\ call'.byLevel[row.level].entry_node
                       = IF old = <<>> THEN Str(row.qId)
                         ELSE call.byLevel[row.level].entry_node
             ELSE /\ Len(new) = Len(old)
                  /\ call'.byLevel[row.level].entry_node = call.byLevel[row.level].entry_node
                  /\ \A k \in 1..Len(old) :
                       IF k \notin at THEN new[k] = old[k]
                       ELSE /\ new[k].id = old[k].id
                            /\ new[k].field = old[k].field
                            /\ new[k].input_type = old[k].input_type
                            /\ Len(new[k].routes) = Len(old[k].routes) + 1
                            /\ SubSeq(new[k].routes, 1, Len(old[k].routes)) = old[k].routes
                            /\ new[k].routes[Len(new[k].routes)].optLabel
                                 = Str(row.option_label)
                            /\ new[k].fallback_node
                                 = IF strict \/ old[k].fallback_node # Null
                                      \/ row.fallback = <<>>
                                   THEN old[k].fallback_node
                                   ELSE Str(row.fallback)

\* C23 as stated: rows are folded in order; the first row of a (level, qId)
\* creates the node, the first node of a level is its entry node, later rows
\* of the qId only append routes, node ids are unique within a level and the
\* routes of a node are in the order of their rows.
C23_LaterRowsOnlyAppend == [][FoldingRow => RowFolded(TRUE)]_allVars

\* C23 (amended): as stated, but a later row of the qId also sets the
\* node's fallback when the node has none yet and the row names one.
C23_LaterRowsAppendOrSetFallback == [][FoldingRow => RowFolded(FALSE)]_allVars

\* Two rows of L1Q1 folded into one node of two routes in row order, the
\* second row having set the fallback.
C23_Witness ==
  /\ call.fn = "loadLogic" /\ call.i = 2
  /\ <<"1">> \in DOMAIN call.byLevel
  /\ Len(call.byLevel[<<"1">>].nodes) = 1
  /\ Len(call.byLevel[<<"1">>].nodes[1].routes) = 2
  /\ call.byLevel[<<"1">>].nodes[1].routes[1].optLabel = Str(sNo)
  /\ call.byLevel[<<"1">>].nodes[1].routes[2].optLabel = Str(sYes)
  /\ call.byLevel[<<"1">>].nodes[1].fallback_node = Str(sFAIL)
  /\ call.byLevel[<<"1">>].entry_node = Str(sL1Q1)

----------------------------------------------------------------------------
(* SpecRoute: one row compiled by loadLogic and the node it makes stepped  *)
(* by evalRoutesFor, for every next and fail_reason of the row.            *)

RouteRows ==
  {[BlankRow EXCEPT !.level = <<"1">>, !.qId = sL1Q1, !.input_type = sBool,
                    !.field = sEligible, !.option_value = ov, !.next = nx,
                    !.fail_reason = fr, !.fallback = fb] :
     ov \in {sTrueLC, sFalseLC}, nx \in {<<>>, sFAIL, sEND, sL1Q2},
     fr \in {<<>>, sNOT_OK}, fb \in {<<>>, sEND}}

InitRoute ==
  /\ maxQ = 1
  /\ healthState = Undefined
  /\ levelId = 1
  /\ \E row \in RouteRows :
       /\ call = [fn |-> "loadLogic", pc |-> "done", data |-> <<row>>, i |-> 1,
                  byLevel |-> loadLogic(<<row>>)]
       /\ levelRules = getLevelRulesOrThrow(1, LogicOf(loadLogic(<<row>>))).rules
  /\ \E a \in AnswerValues, vs \in {EmptyObj, defaultVars(Undefined)} :
       step = [pc |-> "call", nodeId |-> Str(sL1Q1), uiAnswer |-> a, vars |-> vs,
               res |-> OkOnly, scan |-> NoScan,
               mem |-> MemAtCall(levelRules, Str(sL1Q1), vs)]
  /\ rp = IdleReplay
  /\ first = NoFirst
  /\ WizardMounted

SpecRoute == InitRoute /\ [][NextStep]_allVars

\* C30: the compiled route goes to "FAIL" with the row's fail_reason exactly
\* when fail_reason is non-empty and next is empty or "FAIL"; a next that
\* names a node stays the destination without a reason; next "FAIL" with an
\* empty fail_reason fails with the reason "L" when the route is taken.
C30_FailReasonForced ==
  StepReturned
    => LET row == call.data[1]
           route == levelRules.nodes[1].routes[1]
           forced == row.fail_reason # <<>> /\ row.next \in {<<>>, sFAIL}
           taken == step.scan.taken = 1
       IN /\ forced <=> (route.goto_node = Str(sFAIL) /\ route.reason = Str(row.fail_reason))
          /\ ~forced => /\ route.reason = Undefined
                        /\ route.goto_node
                             = IF row.next = <<>> THEN Undefined ELSE Str(row.next)
          /\ (taken /\ forced)
               => ~step.res.ok /\ step.res.reason = Str(row.fail_reason)
          /\ (taken /\ row.next = sFAIL /\ row.fail_reason = <<>>)
               => ~step.res.ok /\ step.res.reason = Str(sL)
          /\ (taken /\ row.next = sL1Q2)
               => /\ step.res.ok /\ step.res.nextNode = Str(sL1Q2)
                  /\ step.res.reason = Undefined

\* The row true -> FAIL without fail_reason, answered "Yes": the generic reason.
C30_Witness ==
  /\ StepReturned
  /\ call.data[1].next = sFAIL /\ call.data[1].fail_reason = <<>>
  /\ step.scan.taken = 1
  /\ ~step.res.ok /\ step.res.reason = Str(sL)

----------------------------------------------------------------------------
(* scripts/sync-csvs.js: fetchAndWrite with its backoff.  Times are in     *)
(* milliseconds from the start of the model's clock.  A call of            *)
(* fetchAndWrite is two steps, up to the request and from the response on, *)
(* and calls of one resource may overlap (setInterval does not wait for    *)
(* the previous updateAll).  The state is the record call:                 *)
(*   now       the clock, Date.now()                                       *)
(*   meta      per resource [etag, lastModified, failCount, nextAttemptAt] *)
(*   files     per resource the content of csv/ and public/csv/ (0: none)  *)
(*   inflight  per resource the number of requests without response        *)
(*   requests, calls, streak, ticks: counts of the requests made, of the   *)
(*   calls of fetchAndWrite, of the failures since the last success and    *)
(*   of the clock's steps.                                                 *)

BACKOFF_BASE_MS == 10000
BACKOFF_MAX_MS == 1800000

Resources == {"questions", "rules"}

RECURSIVE Pow2(_)
Pow2(k) == IF k <= 0 THEN 1 ELSE 2 * Pow2(k - 1)

MinOf(x, y) == IF x <= y THEN x ELSE y

\* The etag and last-modified headers of a response: 0 stands for a header
\* the response does not carry (and, in the metadata, for null).
Headers(etag, lastModified) == [etag |-> etag, lastModified |-> lastModified]

markSuccess_DropsStored(m, h) ==
  [etag |-> h.etag, lastModified |-> h.lastModified, failCount |-> 0, nextAttemptAt |-> 0]

markSuccess(m, h) ==
  [etag |-> IF h.etag # 0 THEN h.etag ELSE m.etag,
   lastModified |-> IF h.lastModified # 0 THEN h.lastModified ELSE m.lastModified,
   failCount |-> 0, nextAttemptAt |-> 0]

markFailure_NoCap(m, now) ==
  [m EXCEPT !.failCount = @ + 1,
            !.nextAttemptAt = now + BACKOFF_BASE_MS * Pow2(m.failCount)]

markFailure(m, now) ==
  [m EXCEPT !.failCount = @ + 1,
            !.nextAttemptAt = now + MinOf(BACKOFF_BASE_MS * Pow2(m.failCount),
                                          BACKOFF_MAX_MS)]

\* if (m.nextAttemptAt && Date.now() < m.nextAttemptAt)
InBackoff(m, now) == m.nextAttemptAt # 0 /\ now < m.nextAttemptAt

\* The meta file as loadMeta finds it: no failure, or eight in a row with
\* the time of the next attempt passed.
InitSync ==
  /\ \E fc \in [Resources -> {0, 8}] :
       call = [fn |-> "sync", now |-> 1000,
               meta |-> [r \in Resources |->
                           [etag |-> 0, lastModified |-> 0, failCount |-> fc[r],
                            nextAttemptAt |-> 0]],
               files |-> [r \in Resources |-> 0],
               inflight |-> [r \in Resources |-> 0],
               requests |-> [r \in Resources |-> 0],
               calls |-> [r \in Resources |-> 0],
               streak |-> fc,
               ticks |-> 0]
  /\ EngineIdle

\* fetchAndWrite(name) up to its return in backoff or to the request.
FetchStart(r) ==
  /\ call.fn = "sync"
  /\ call.calls[r] < MaxAttempts
  /\ IF InBackoff(call.meta[r], call.now)
     THEN call' = [call EXCEPT !.calls[r] = @ + 1]
     ELSE call' = [call EXCEPT !.calls[r] = @ + 1, !.requests[r] = @ + 1,
                               !.inflight[r] = @ + 1]
  /\ UNCHANGED engineVars
  /\ UNCHANGED wizardVars

\* The response 304: markSuccess and saveMeta.
FetchNotModified(r) ==
  /\ call.fn = "sync" /\ call.inflight[r] > 0
  /\ \E etag \in 0..1 :
       call' = [call EXCEPT !.inflight[r] = @ - 1, !.streak[r] = 0,
                            !.meta[r] = markSuccess(@, Headers(etag, 0))]
  /\ UNCHANGED engineVars
  /\ UNCHANGED wizardVars

\* A response with content txt: written unless the local file equals it.
FetchContent(r) ==
  /\ call.fn = "sync" /\ call.inflight[r] > 0
  /\ \E txt \in 1..2, etag \in 0..1 :
       call' = [call EXCEPT !.inflight[r] = @ - 1, !.streak[r] = 0,
                            !.files[r] = txt,
                            !.meta[r] = markSuccess(@, Headers(etag, 0))]
  /\ UNCHANGED engineVars
  /\ UNCHANGED wizardVars

\* fetch throws or the response is not ok: markFailure and saveMeta.
FetchFailed(r) ==
  /\ call.fn = "sync" /\ call.inflight[r] > 0
  /\ call' = [call EXCEPT !.inflight[r] = @ - 1, !.streak[r] = @ + 1,
                          !.meta[r] = markFailure(@, call.now)]
  /\ UNCHANGED engineVars
  /\ UNCHANGED wizardVars

\* Time passes: a few seconds, or up to the next attempt time of a resource.
Tick ==
  /\ call.fn = "sync"
  /\ call.ticks < MaxTicks
  /\ \E t \in {call.now + 5000}
               \cup {call.meta[r].nextAttemptAt : r \in Resources} :
       /\ t > call.now
       /\ call' = [call EXCEPT !.now = t, !.ticks = @ + 1]
  /\ UNCHANGED engineVars
  /\ UNCHANGED wizardVars

NextSync ==
  \/ \E r \in Resources : FetchStart(r)
  \/ \E r \in Resources : FetchNotModified(r)
  \/ \E r \in Resources : FetchContent(r)
  \/ \E r \in Resources : FetchFailed(r)
  \/ Tick

SpecSync == InitSync /\ [][NextSync]_allVars

----------------------------------------------------------------------------
(* SpecSave: the LevelWizard of level 1 with its answer buttons and its    *)
(* save button.  onSave sets the screen to "home", so nothing is answered  *)
(* in this wizard after a save.                                            *)

allAnsweredAndEligible_IgnoresPath(e, s, p, a) == e \/ s.isNull

\* ended || (!stop && path.every((q) => answers[q]))
allAnsweredAndEligible(e, s, p, a) ==
  e \/ (s.isNull /\ \A i \in 1..Len(p) : Truthy(Get(a, p[i])))

\* stop ? "failed" : allAnsweredAndEligible ? "completed" : "idle"
SaveStatus(e, s, p, a) ==
  IF ~s.isNull THEN "failed"
  ELSE IF allAnsweredAndEligible(e, s, p, a) THEN "completed"
  ELSE "idle"

\* screen === "level": the wizard is rendered.
OnLevelScreen == call = NoCall

\* handleSave: onSave({ levelId, status, answers, phrase: resultPhrase }).
handleSave ==
  /\ OnLevelScreen
  /\ call' = [fn |-> "handleSave", pc |-> "done", levelId |-> levelId,
              status |-> SaveStatus(ended, stop, path, answers),
              answers |-> answers, phrase |-> resultPhrase]
  /\ UNCHANGED engineVars
  /\ UNCHANGED wizardVars

AnswerOnScreen == OnLevelScreen /\ Answer

NextSave == AnswerOnScreen \/ handleSave

SpecSave == Init /\ [][NextSave]_allVars

Saved == CallDone("handleSave")

\* The last question of the stored path.
LastOfPath == path[Len(path)]

\* The outcome of the routes of the last question of the path on its stored
\* answer.
LastOutcome ==
  evalRoutesFor(levelRules, nodeIdFor(levelId, LastOfPath), answers[LastOfPath], vars)

\* C29: a save reports "failed" exactly when stop is set; otherwise
\* "completed" exactly when ended is true or every question of the path has
\* an answer; otherwise "idle".  A level that is not ended and whose path
\* ends in an unanswered question is never saved as "completed".
C29_SaveStatus ==
  Saved =>
    /\ call.status \in {"failed", "completed", "idle"}
    /\ (call.status = "failed") <=> ~stop.isNull
    /\ stop.isNull =>
         ((call.status = "completed")
            <=> (ended \/ \A q \in Range(path) : q \in DOMAIN answers))
    /\ (~ended /\ LastOfPath \notin DOMAIN answers) => call.status # "completed"

\* The replay halted without advancing (the last question is answered, its
\* routes give neither a next node, nor a failure, nor a completion) and the
\* level was saved as "completed".
C29_Witness ==
  /\ Saved /\ touched
  /\ stop.isNull /\ ~ended
  /\ Len(path) < maxQ
  /\ \A q \in Range(path) : q \in DOMAIN answers
  /\ LastOutcome.ok /\ ~LastOutcome.complete /\ LastOutcome.nextNode = Undefined
  /\ call.status = "completed"

\* A level saved while its last question is unanswered.
SavedIdle == Saved /\ touched /\ call.status = "idle"

\* A level saved after a failure.
SavedFailed == Saved /\ call.status = "failed"

----------------------------------------------------------------------------
(* SpecEOL: parseCSV on one table written three times, its rows ended by   *)
(* LF, by CRLF and by a lone CR.                                           *)

LineEnds == [lf |-> <<"\n">>, crlf |-> <<"\r", "\n">>, cr |-> <<"\r">>]

\* The table as text, every row but the last followed by the line end.
TableTextWith(table, eol) ==
  Joined([k \in 1..Len(table) |-> RowText(table[k], FALSE)], eol)

InitEOL ==
  /\ \E t \in Tables :
       call = [fn |-> "parseCSV", pc |-> "call", table |-> t,
               text |-> [e \in DOMAIN LineEnds |-> TableTextWith(t, LineEnds[e])],
               result |-> [e \in DOMAIN LineEnds |-> NoParse]]
  /\ EngineIdle

\* parseCSV(text) on each of the three texts.
EolParse ==
  /\ call.fn = "parseCSV" /\ call.pc = "call"
  /\ call' = [call EXCEPT !.pc = "done",
                          !.result = [e \in DOMAIN LineEnds |->
                                        parseCSV(call.text[e], LookupNames)]]
  /\ UNCHANGED engineVars
  /\ UNCHANGED wizardVars

NextEOL == EolParse

SpecEOL == InitEOL /\ [][NextEOL]_allVars

\* C31 as stated: CRLF, a lone LF and a lone CR each end a row outside
\* quotes, so the table written with any of them parses to the same rows.
C31_AnyTerminatorSameRows ==
  CallDone("parseCSV")
    => /\ call.result["crlf"] = call.result["lf"]
       /\ call.result["cr"] = call.result["lf"]
       /\ call.result["lf"].rows = call.table

\* C31 amended: CRLF and a lone LF each end a row outside quotes, so the
\* table written with either of them parses to the same rows, the rows of
\* the table; a lone CR ends no row: it stays in the text that is scanned.
C31_CrlfAndLfSameRows ==
  CallDone("parseCSV")
    => /\ call.result["crlf"] = call.result["lf"]
       /\ call.result["lf"].rows = call.table
       /\ Len(call.result["cr"].rows) = 1

\* A table of two rows: with LF and with CRLF two rows are scanned, with a
\* lone CR one row whose middle cell holds the CR.
C31_Witness ==
  /\ CallDone("parseCSV")
  /\ call.table = << << <<"A", "b">>, <<"A", "b">> >>, << <<"A", "b">>, <<"A", "b">> >> >>
  /\ call.result["crlf"].rows = call.table
  /\ call.result["lf"].rows = call.table
  /\ call.result["cr"].rows
       = << << <<"A", "b">>, <<"A", "b", "\r", "A", "b">>, <<"A", "b">> >> >>

----------------------------------------------------------------------------
(* SpecQuote: parseCSV on texts whose quoting is malformed: a row followed *)
(* by a quoted field that is never closed, and every text of at most       *)
(* MaxChars characters over a letter, a quote, a comma and a line break.   *)

\* The ends of a text after an opening quote, as written and as content.
OpenTails ==
  {[written |-> <<>>, content |-> <<>>],
   [written |-> <<"x">>, content |-> <<"x">>],
   [written |-> <<"x", ",", "y", "\n", "z", " ">>,
    content |-> <<"x", ",", "y", "\n", "z", " ">>],
   [written |-> <<"q", "\"", "\"">>, content |-> <<"q", "\"">>]}

ShortTexts == SeqsUpTo({"a", "\"", ",", "\n"}, MaxChars)

QuoteCallOf(text, built, expected) ==
  [fn |-> "parseCSV", pc |-> "call", text |-> text, built |-> built,
   expected |-> expected, result |-> NoParse, closed |-> NoParse]

InitQuote ==
  /\ \/ \E r \in TableRows, tail \in OpenTails :
          \/ call = QuoteCallOf(RowText(r, FALSE) \o <<",", "\"">> \o tail.written, TRUE,
                                <<Append(r, tail.content)>>)
          \/ call = QuoteCallOf(RowText(r, FALSE) \o <<"\n", "\"">> \o tail.written, TRUE,
                                <<r, <<tail.content>>>>)
     \/ \E text \in ShortTexts : call = QuoteCallOf(text, FALSE, <<>>)
  /\ EngineIdle

\* parseCSV(text), and parseCSV of the text with one more quote at its end.
QuoteParse ==
  /\ call.fn = "parseCSV" /\ call.pc = "call"
  /\ call' = [call EXCEPT !.pc = "done",
                          !.result = parseCSV(call.text, LookupNames),
                          !.closed = parseCSV(Append(call.text, "\""), LookupNames)]
  /\ UNCHANGED engineVars
  /\ UNCHANGED wizardVars

NextQuote == QuoteParse

SpecQuote == InitQuote /\ [][NextQuote]_allVars

\* A text with an odd number of quotes ends inside a quoted field.
OddQuotes(text) == Cardinality({j \in 1..Len(text) : text[j] = "\""}) % 2 = 1

\* C32: parseCSV returns a table for every text; for a text that ends
\* inside a quoted field the table is the one of the text with the quote
\* closed at its end, and the content from the opening quote to the end is
\* the last cell.
C32_OpenQuoteClosedAtEnd ==
  CallDone("parseCSV")
    => /\ call.result.rows # <<>>
       /\ DOMAIN call.result.idx = LookupNames
       /\ OddQuotes(call.text) => call.result = call.closed
       /\ call.built => call.result.rows = call.expected

\* A row followed by a quoted field that is never closed, with a comma and
\* a line break in it: its content to the end is the last cell.
C32_Witness ==
  /\ CallDone("parseCSV") /\ call.built /\ OddQuotes(call.text)
  /\ call.result.rows
       = << << <<"A", "b">>, <<"x", ",", "y", "\n", "z", " ">> >> >>
  /\ call.result.header = << <<"A", "b">>, <<"x", ",", "y", "\n", "z">> >>

----------------------------------------------------------------------------
(* Properties of the terminal marks of replayLevel, checked under          *)
(* SpecReplay.                                                             *)

\* The destinations the node of question q can give: the goto of a route,
\* the next of a guard (a guard without next fails), the fallback.
CanGive(q, dest) ==
  LET k == FindNode(levelRules.nodes, nodeIdFor(levelId, q)) IN
  /\ k # 0
  /\ LET node == levelRules.nodes[k] IN
     \/ node.fallback_node = Str(dest)
     \/ \E j \in 1..Len(node.routes) :
          \/ node.routes[j].goto_node = Str(dest)
          \/ node.routes[j].guard.present /\ node.routes[j].guard.next = Str(dest)
          \/ /\ dest = sFAIL
             /\ node.routes[j].guard.present
             /\ ~Truthy(node.routes[j].guard.next)

\* C33: ended = true and stop != null never hold together in the locals or
\* in the result of a call; when either holds the walk is over, the last
\* index of the path is the current index, that question is answered, its
\* node can give the mark, and a stop names that index.
C33_OneTerminalMark ==
  rp.pc \in {"loop", "done"}
    => LET l == rp.loc IN
       /\ ~(l.ended /\ ~l.stop.isNull)
       /\ (l.ended \/ ~l.stop.isNull)
            => /\ ~l.running
               /\ l.path # <<>>
               /\ l.path[Len(l.path)] = l.qIdx.n
               /\ l.qIdx.n \in DOMAIN rp.answersMap
               /\ l.ended => CanGive(l.qIdx.n, sEND)
               /\ ~l.stop.isNull
                    => /\ l.stop.qIndex = l.path[Len(l.path)]
                       /\ CanGive(l.qIdx.n, sFAIL)
       /\ rp.pc = "done"
            => /\ rp.result.ended = l.ended
               /\ rp.result.stop = l.stop
               /\ rp.result.path = l.path

\* A call that ended at its third question, after a jump over the second.
C33_Witness ==
  /\ ReplayDone
  /\ rp.result.ended /\ rp.result.stop.isNull
  /\ rp.result.path = <<0, 2>>

\* A call that stopped at its third question.
StoppedAtThird ==
  /\ ReplayDone
  /\ ~rp.result.ended /\ rp.result.stop.qIndex = 2 /\ ~rp.result.stop.isNull
  /\ Len(rp.result.path) = 3

----------------------------------------------------------------------------
(* SpecWalk: one call of each of the two definitions of replayLevel on the *)
(* same arguments: a level of no question or of MaxQuestions questions,    *)
(* any graph of ReplayGraphs, any answers map and health state.            *)

InitWalk ==
  /\ levelId = 1
  /\ maxQ \in {0, MaxQuestions}
  /\ healthState \in {Undefined, Str(sRED)}
  /\ levelRules \in ReplayGraphs
  /\ \E am \in AnswerMaps(maxQ) :
       call = [fn |-> "replayLevel", pc |-> "call", answersMap |-> am,
               module |-> NoResult, nested |-> NoResult]
  /\ step = IdleStep
  /\ rp = IdleReplay
  /\ first = NoFirst
  /\ WizardMounted

\* replayLevel({ levelId, lvl, levelRules, answersMap, healthState }) of the
\* module and of LevelWizard.
WalkBoth ==
  /\ call.fn = "replayLevel" /\ call.pc = "call"
  /\ call' = [call EXCEPT
                !.pc = "done",
                !.module = replayLevel(levelId, maxQ, levelRules, call.answersMap,
                                       healthState),
                !.nested = LevelWizard_replayLevel(levelId, maxQ, levelRules,
                                                   call.answersMap, healthState)]
  /\ UNCHANGED engineVars
  /\ UNCHANGED wizardVars

NextWalk == WalkBoth

SpecWalk == InitWalk /\ [][NextWalk]_allVars

NoIndexTwice(p) == \A i, j \in 1..Len(p) : p[i] = p[j] => i = j

\* C34: the returned path holds no index twice, every index of it lies in
\* 0 .. maxQ - 1, it begins with 0 when the level has a question and is
\* empty otherwise.
C34_PathInRange ==
  CallDone("replayLevel")
    => \A r \in {call.module, call.nested} :
         /\ NoIndexTwice(r.path)
         /\ \A i \in 1..Len(r.path) : r.path[i] \in 0..(maxQ - 1)
         /\ maxQ >= 1 => (r.path # <<>> /\ r.path[1] = 0)
         /\ maxQ = 0 => r.path = <<>>

\* The same with the index -1 allowed after the first position.
PathBelowCount ==
  CallDone("replayLevel")
    => \A r \in {call.module, call.nested} :
         /\ NoIndexTwice(r.path)
         /\ \A i \in 1..Len(r.path) : r.path[i] \in (0 - 1)..(maxQ - 1)
         /\ \A i \in 1..Len(r.path) :
              r.path[i] = 0 - 1
                => i = Len(r.path) /\ i > 1 /\ r.stop.isNull /\ ~r.ended
         /\ maxQ >= 1 => (r.path # <<>> /\ r.path[1] = 0)
         /\ maxQ = 0 => r.path = <<>>

\* C35: the two definitions of replayLevel return the same path, vars, stop,
\* ended, pruned answers, print and guardReason.
C35_SameResult ==
  CallDone("replayLevel") => call.module = call.nested

\* The second question was answered "No", which its node accepts with no
\* destination: both walks end there, and the answer of the third question
\* is pruned.
C35_Witness ==
  /\ CallDone("replayLevel")
  /\ DOMAIN call.answersMap = {0, 1, 2}
  /\ call.answersMap[1] = Str(sNo)
  /\ Len(levelRules.nodes) >= 2 /\ Len(levelRules.nodes[2].routes) = 3
  /\ call.module.path = <<0, 1>> /\ call.nested.path = <<0, 1>>
  /\ call.module.stop.isNull /\ ~call.module.ended
  /\ DOMAIN call.nested.answers = {0, 1}
  /\ Get(call.nested.vars, sNIYABAT) = Bool(TRUE)

----------------------------------------------------------------------------
(* The vars a guard returns, checked under SpecStep.                       *)

\* The vars given to the step with the answer under the field amount.
VarsWithAnswer ==
  [k \in DOMAIN step.vars \cup {sAmount} |->
     IF k = sAmount THEN step.uiAnswer ELSE step.vars[k]]

\* C36: when the guard of the first when-matching route matches and decides
\* the outcome, the set assignments of the route are not applied: the
\* returned vars are the given vars with the answer under the node's field.
C36_GuardLeavesSetUnapplied ==
  GuardDecides
    => /\ step.res.hasVars
       /\ step.res.vars = VarsWithAnswer
       /\ \A k \in DOMAIN StepRoutesOf[Least(Matching)].set :
            Get(step.res.vars, k) = Get(step.vars, k)

\* A guard that ends the level on a route that sets GIFT: GIFT stays false.
C36_Witness ==
  /\ GuardDecides
  /\ StepRoutesOf[Least(Matching)].set = SetGift
  /\ StepRoutesOf[Least(Matching)].guard.next = Str(sEND)
  /\ step.res.complete
  /\ Get(step.vars, sGIFT) = Bool(FALSE)
  /\ Get(step.res.vars, sGIFT) = Bool(FALSE)
  /\ Get(step.res.vars, sAmount) = Str(s100)

\* A guard that fails the step, and one that advances, on a route that sets GIFT.
GuardFailedOrAdvanced(ok) ==
  /\ GuardDecides
  /\ StepRoutesOf[Least(Matching)].set = SetGift
  /\ step.res.ok = ok /\ ~step.res.complete
GuardFailed == GuardFailedOrAdvanced(FALSE)
GuardAdvanced == GuardFailedOrAdvanced(TRUE) /\ Truthy(step.res.nextNode)

----------------------------------------------------------------------------
(* SpecApp: the screens of EligibilityApp.  call holds the state of the    *)
(* component (screen, levelId, statuses) and the last event it handled.    *)
(* The levels are 1, 2 and 3; a status no save has set is "unsaved".  The  *)
(* LevelWizard on the level screen saves with any of its three statuses.   *)

Levels == {1, 2, 3}
SaveStatuses == {"failed", "completed", "idle"}

NoEvent == [op |-> "none", id |-> 0]

InitApp ==
  /\ call = [fn |-> "EligibilityApp", pc |-> "rendered", screen |-> "home",
             levelId |-> Null, statuses |-> [l \in Levels |-> "unsaved"],
             event |-> NoEvent]
  /\ EngineIdle

\* const isLocked = lvl.id === 3 && !(statuses[2] === "completed")
isLocked(id, statuses) == id = 3 /\ ~(statuses[2] = "completed")

\* onPick(id) of the Home that EligibilityApp renders.
onPick(app, id) ==
  IF id = 3 /\ ~(app.statuses[2] = "completed")
  THEN [app EXCEPT !.event = [op |-> "onPick", id |-> id]]
  ELSE [app EXCEPT !.levelId = Num(id), !.screen = "level",
                   !.event = [op |-> "onPick", id |-> id]]

\* The click on the card of a level: if (!isLocked) onPick(lvl.id).
CardClicked_NoLock(app, id) ==
  [app EXCEPT !.levelId = Num(id), !.screen = "level",
              !.event = [op |-> "onPick", id |-> id]]

CardClicked(app, id) ==
  IF isLocked(id, app.statuses)
  THEN [app EXCEPT !.event = [op |-> "onPick", id |-> id]]
  ELSE onPick(app, id)

\* onSave({ levelId: lid, status, answers, phrase })
onSave(app, lid, status) ==
  [app EXCEPT !.statuses = [@ EXCEPT ![lid] = status], !.screen = "home",
              !.event = [op |-> "onSave", id |-> lid]]

Pick ==
  /\ call.fn = "EligibilityApp" /\ call.screen = "home"
  /\ \E id \in Levels : call' = CardClicked(call, id)
  /\ UNCHANGED engineVars
  /\ UNCHANGED wizardVars

Save ==
  /\ call.fn = "EligibilityApp" /\ call.screen = "level"
  /\ \E status \in SaveStatuses : call' = onSave(call, call.levelId.n, status)
  /\ UNCHANGED engineVars
  /\ UNCHANGED wizardVars

\* onReset: window.location.reload()
Reload ==
  /\ call.fn = "EligibilityApp" /\ call.screen = "home" /\ call.event # NoEvent
  /\ call' = [call EXCEPT !.levelId = Null, !.statuses = [l \in Levels |-> "unsaved"],
                          !.event = NoEvent]
  /\ UNCHANGED engineVars
  /\ UNCHANGED wizardVars

NextApp == Pick \/ Save \/ Reload

SpecApp == InitApp /\ [][NextApp]_allVars

\* The level screen is shown for level 3.
OnLevelThree == call.screen = "level" /\ call.levelId = Num(3)

\* C37: the level screen is shown for level 3 only if the saved status of
\* level 2 is "completed"; a pick of level 3 while level 2 is idle, failed
\* or unsaved leaves the screen and the selected level unchanged.
C37_LevelThreeLocked ==
  [][/\ OnLevelThree' => call'.statuses[2] = "completed"
     /\ (call'.event = [op |-> "onPick", id |-> 3]
         /\ call.statuses[2] \in {"idle", "failed", "unsaved"})
          => /\ call'.screen = call.screen
             /\ call'.levelId = call.levelId
             /\ call'.statuses = call.statuses]_allVars

\* Level 3 is shown after level 2 was saved as completed and level 1 as
\* failed.
C37_Witness ==
  /\ OnLevelThree
  /\ call.statuses[2] = "completed"
  /\ call.statuses[1] = "failed"

\* Level 3 was picked while level 2 is saved as failed: the home screen stays.
PickRefused ==
  /\ call.event = [op |-> "onPick", id |-> 3]
  /\ call.statuses[2] = "failed"
  /\ call.screen = "home" /\ call.levelId = Num(2)

----------------------------------------------------------------------------
(* SpecRounds: the polling rounds of the sync script on its three          *)
(* resources.  updateAll starts fetchAndWrite for every resource; each     *)
(* runs to its return in backoff or to its request before the next one     *)
(* starts, and the responses arrive in any order, also after the next      *)
(* round has started (setInterval does not wait for updateAll).  The state *)
(* is the record call: now, meta and inflight as in SpecSync, and rounds,  *)
(* the number of calls of updateAll.  The meta file holds an etag and a    *)
(* last-modified time (1) for every resource at the start.                 *)

REMOTES == {"questions", "phrases", "rules"}

\* meta[name] = ... : the metadata with the entry of one resource replaced.
WithMeta_OneBackoff(meta, r, m) ==
  [x \in DOMAIN meta |->
     IF x = r THEN m
     ELSE [meta[x] EXCEPT !.failCount = m.failCount, !.nextAttemptAt = m.nextAttemptAt]]

WithMeta(meta, r, m) == [meta EXCEPT ![r] = m]

InitRounds ==
  /\ call = [fn |-> "updateAll", now |-> 1000,
             meta |-> [r \in REMOTES |->
                         [etag |-> 1, lastModified |-> 1, failCount |-> 0,
                          nextAttemptAt |-> 0]],
             inflight |-> [r \in REMOTES |-> 0],
             rounds |-> 0]
  /\ EngineIdle

\* updateAll: fetchAndWrite(name, url) for every resource, each up to its
\* return in backoff or to its request.
updateAll ==
  /\ call.fn = "updateAll"
  /\ call.rounds < MaxAttempts
  /\ call' = [call EXCEPT
                !.rounds = @ + 1,
                !.inflight = [r \in REMOTES |->
                                IF InBackoff(call.meta[r], call.now) THEN @[r]
                                ELSE @[r] + 1]]
  /\ UNCHANGED engineVars
  /\ UNCHANGED wizardVars

\* A response 304 or 200 to a request of resource r, with or without an
\* etag and a last-modified header (2): markSuccess.
Succeeded(r) ==
  /\ call.fn = "updateAll" /\ call.inflight[r] > 0
  /\ \E h \in {Headers(0, 0), Headers(2, 0), Headers(2, 2)} :
       call' = [call EXCEPT !.inflight[r] = @ - 1,
                            !.meta = WithMeta(@, r, markSuccess(@[r], h))]
  /\ UNCHANGED engineVars
  /\ UNCHANGED wizardVars

\* fetch throws, the response is not ok or a file cannot be written:
\* markFailure.
Failed(r) ==
  /\ call.fn = "updateAll" /\ call.inflight[r] > 0
  /\ call' = [call EXCEPT !.inflight[r] = @ - 1,
                          !.meta = WithMeta(@, r, markFailure(@[r], call.now))]
  /\ UNCHANGED engineVars
  /\ UNCHANGED wizardVars

\* Time passes: five seconds.
Later ==
  /\ call.fn = "updateAll"
  /\ call.now < 1000 + 5000 * MaxTicks
  /\ call' = [call EXCEPT !.now = @ + 5000]
  /\ UNCHANGED engineVars
  /\ UNCHANGED wizardVars

NextRounds ==
  \/ updateAll
  \/ \E r \in REMOTES : Succeeded(r)
  \/ \E r \in REMOTES : Failed(r)
  \/ Later

SpecRounds == InitRounds /\ [][NextRounds]_allVars

ResetAfterFailure ==
  /\ call.fn = "updateAll"
  /\ call.inflight["rules"] = 0 /\ call.rounds = 2
  /\ call.meta["rules"] = [etag |-> 2, lastModified |-> 1, failCount |-> 0,
                           nextAttemptAt |-> 0]
  /\ call.meta["questions"].failCount = 1

====
